---------------------------- MODULE Spec2Model ----------------------------
(***************************************************************************)
(* bft-maker: manifest validation and row-count estimation.                *)
(*                                                                         *)
(* validate, estimateRows and estimateTableRows are pure functions of a    *)
(* manifest.  Each is an operator computed the way the TypeScript computes *)
(* it (JS Map and Set keep insertion order, so they are sequences here),   *)
(* and each has a specification whose Init draws the arguments from        *)
(* bounded sets and whose action applies the function.                     *)
(***************************************************************************)
EXTENDS Integers, Sequences, FiniteSets, TLC

VARIABLES
    pc,        \* "ready" before the call, "done" after it returned, "raised" if it threw
    op,        \* which function the behaviour calls
    manifest,  \* the Manifest argument (entities, relationships, propagations, bft_tables)
    table,     \* the BftTable argument of estimateTableRows (entities = grain, metrics)
    result,    \* the RowEstimate returned (estimators)
    trace,     \* the estimator's locals at return (components, chains), and the calls made
    errors     \* the ValidationError[] returned (validate)

vars == <<pc, op, manifest, table, result, trace, errors>>

\* The value of a JS lookup that finds nothing: a name (array index past the
\* end) and an entity (Map.get of an undeclared name).
Undefined == "undefined"
NoEntity == [undefined |-> TRUE]

NoResult == [rows |-> 0, placeholder_row_count |-> 0, total |-> 0, breakdown |-> <<>>]
NoTrace == [components |-> <<>>, contribs |-> <<>>, chains |-> <<>>,
            effectiveChains |-> <<>>, placeholderEntities |-> <<>>, calls |-> 0]
NoTable == [name |-> "none", entities |-> <<>>, metrics |-> <<>>]

----------------------------------------------------------------------------
(* Generic helpers for JS arrays, Sets and Maps.                           *)

Has(s, x) == \E i \in DOMAIN s : s[i] = x

\* Set.prototype.add: insertion order is kept, a present element stays where it is.
SetAdd(s, x) == IF Has(s, x) THEN s ELSE Append(s, x)

Range(s) == {s[i] : i \in DOMAIN s}

RECURSIVE SumSeq(_)
SumSeq(s) == IF s = <<>> THEN 0 ELSE Head(s) + SumSeq(Tail(s))

\* Sequences over S of length 0..n without a repeated element.
RECURSIVE InjSeqs(_, _)
InjSeqs(S, n) ==
    IF n = 0 THEN {<<>>}
    ELSE LET shorter == InjSeqs(S, n - 1)
         IN shorter \cup UNION {{Append(s, x) : x \in S \ Range(s)} :
                                s \in {t \in shorter : Len(t) = n - 1}}

\* rel.between[k] (k = 1, 2 for JS indexes 0, 1); undefined past the end.
Between(rel, k) == IF k <= Len(rel.between) THEN rel.between[k] ELSE Undefined

\* new Map(entities.map(e => [e.name, e])).get(name): the last entity of that name.
EntityMapGet(entities, name) ==
    LET idx == {i \in DOMAIN entities : entities[i].name = name}
    IN IF idx = {} THEN NoEntity
       ELSE entities[CHOOSE i \in idx : \A j \in idx : j <= i]

\* Math.round(total * (links / rows)) for positive integers: the nearest
\* integer, an exact half going up.  The double product is exact at a half only
\* when links / rows is a dyadic fraction; the row counts drawn below are odd or
\* powers of two, for which the double computation and this one agree.
RoundMulDiv_Floor(total, links, rows) == (total * links) \div rows

RoundMulDiv(total, links, rows) == (2 * total * links + rows) \div (2 * rows)

----------------------------------------------------------------------------
(* graph.ts: findConnectedComponents                                       *)

\* adj.get(a)?.add(b); adj.get(b)?.add(a) for every relationship, in order.
RECURSIVE AddEdges(_, _, _)
AddEdges(adj, rels, i) ==
    IF i > Len(rels) THEN adj
    ELSE LET a == Between(rels[i], 1)
             b == Between(rels[i], 2)
             adj1 == IF a \in DOMAIN adj THEN [adj EXCEPT ![a] = SetAdd(@, b)] ELSE adj
             adj2 == IF b \in DOMAIN adj1 THEN [adj1 EXCEPT ![b] = SetAdd(@, a)] ELSE adj1
         IN AddEdges(adj2, rels, i + 1)

\* The while loop over the queue: one component, and the visited set after it.
RECURSIVE BfsComponent(_, _, _, _)
BfsComponent(adj, queue, visited, component) ==
    IF queue = <<>> THEN [visited |-> visited, component |-> component]
    ELSE LET current == Head(queue)
             rest == Tail(queue)
         IN IF current \in visited
            THEN BfsComponent(adj, rest, visited, component)
            ELSE LET v2 == visited \cup {current}
                     nbrs == IF current \in DOMAIN adj THEN adj[current] ELSE <<>>
                     push == SelectSeq(nbrs, LAMBDA n : n \notin v2)
                 IN BfsComponent(adj, rest \o push, v2, Append(component, current))

RECURSIVE ComponentsLoop(_, _, _, _, _)
ComponentsLoop(adj, entityNames, i, visited, components) ==
    IF i > Len(entityNames) THEN components
    ELSE IF entityNames[i] \in visited
         THEN ComponentsLoop(adj, entityNames, i + 1, visited, components)
         ELSE LET r == BfsComponent(adj, <<entityNames[i]>>, visited, <<>>)
              IN ComponentsLoop(adj, entityNames, i + 1, r.visited,
                                Append(components, r.component))

\* Variant: a relationship is an edge from its first name to its second only.
RECURSIVE AddEdges_OneWay(_, _, _)
AddEdges_OneWay(adj, rels, i) ==
    IF i > Len(rels) THEN adj
    ELSE LET a == Between(rels[i], 1)
             b == Between(rels[i], 2)
         IN AddEdges_OneWay(IF a \in DOMAIN adj THEN [adj EXCEPT ![a] = SetAdd(@, b)] ELSE adj,
                            rels, i + 1)

findConnectedComponents_OneWay(entityNames, rels) ==
    ComponentsLoop(AddEdges_OneWay([n \in Range(entityNames) |-> <<>>], rels, 1),
                   entityNames, 1, {}, <<>>)

findConnectedComponents(entityNames, rels) ==
    LET adj0 == [n \in Range(entityNames) |-> <<>>]
        adj == AddEdges(adj0, rels, 1)
    IN ComponentsLoop(adj, entityNames, 1, {}, <<>>)

----------------------------------------------------------------------------
(* estimate.ts: estimateComponentRows, findSharedEntity, estimateRows      *)

\* adj.get(a).push({neighbor: b, rel}); adj.get(b).push({neighbor: a, rel})
RECURSIVE RelAdjacency(_, _, _)
RelAdjacency(adj, mmRels, i) ==
    IF i > Len(mmRels) THEN adj
    ELSE LET rel == mmRels[i]
             a == Between(rel, 1)
             b == Between(rel, 2)
         IN IF a \in DOMAIN adj /\ b \in DOMAIN adj
            THEN LET adj1 == [adj EXCEPT ![a] = Append(@, [neighbor |-> b, rel |-> rel])]
                     adj2 == [adj1 EXCEPT ![b] = Append(@, [neighbor |-> a, rel |-> rel])]
                 IN RelAdjacency(adj2, mmRels, i + 1)
            ELSE RelAdjacency(adj, mmRels, i + 1)

\* Variant: the loop stops at the first neighbour it adds to the tree.
RECURSIVE VisitNeighbors_FirstOnly(_, _, _)
VisitNeighbors_FirstOnly(nbrs, k, st) ==
    IF k > Len(nbrs) THEN st
    ELSE IF nbrs[k].neighbor \in st.visited
         THEN VisitNeighbors_FirstOnly(nbrs, k + 1, st)
         ELSE [visited |-> st.visited \cup {nbrs[k].neighbor},
               queue |-> Append(st.queue, nbrs[k].neighbor),
               spanRels |-> Append(st.spanRels, nbrs[k].rel)]

\* for (const {neighbor, rel} of adj.get(current)): st = [visited, queue, spanRels]
RECURSIVE VisitNeighbors(_, _, _)
VisitNeighbors(nbrs, k, st) ==
    IF k > Len(nbrs) THEN st
    ELSE IF nbrs[k].neighbor \in st.visited
         THEN VisitNeighbors(nbrs, k + 1, st)
         ELSE VisitNeighbors(nbrs, k + 1,
                [visited |-> st.visited \cup {nbrs[k].neighbor},
                 queue |-> Append(st.queue, nbrs[k].neighbor),
                 spanRels |-> Append(st.spanRels, nbrs[k].rel)])

\* while (treeQueue.length > 0): the relationships of the spanning tree, in discovery order.
RECURSIVE SpanningTree(_, _)
SpanningTree(adj, st) ==
    IF st.queue = <<>> THEN st.spanRels
    ELSE LET current == Head(st.queue)
             st1 == [st EXCEPT !.queue = Tail(st.queue)]
         IN SpanningTree(adj, VisitNeighbors(adj[current], 1, st1))

findSharedEntity_FirstEndpoint(rel, priorRels, entities) ==
    EntityMapGet(entities, Between(rel, 1))

\* The first endpoint of rel that an earlier tree relationship also names,
\* looked up in the entity map (undefined when there is none or it is undeclared).
findSharedEntity(rel, priorRels, entities) ==
    LET priorEntities == UNION {{Between(priorRels[j], 1), Between(priorRels[j], 2)} :
                                j \in DOMAIN priorRels}
    IN IF Between(rel, 1) \in priorEntities THEN EntityMapGet(entities, Between(rel, 1))
       ELSE IF Between(rel, 2) \in priorEntities THEN EntityMapGet(entities, Between(rel, 2))
       ELSE NoEntity

\* for (let i = 1; i < spanRels.length; i++): acc = [result, breakdown]
RECURSIVE FanOutLoop(_, _, _, _)
FanOutLoop(spanRels, i, entities, acc) ==
    IF i > Len(spanRels) THEN acc
    ELSE LET rel == spanRels[i]
             sharedEntity == findSharedEntity(rel, SubSeq(spanRels, 1, i - 1), entities)
         IN IF sharedEntity = NoEntity
            THEN FanOutLoop(spanRels, i + 1, entities, acc)
            ELSE FanOutLoop(spanRels, i + 1, entities,
                   [result |-> RoundMulDiv(acc.result, rel.estimated_links,
                                           sharedEntity.estimated_rows),
                    breakdown |-> Append(acc.breakdown,
                        [kind |-> "fanout", name |-> rel.name,
                         links |-> rel.estimated_links,
                         rows |-> sharedEntity.estimated_rows,
                         entity |-> sharedEntity.name])])

\* Returns [result, breakdown]: the component's rows and the breakdown with its lines added.
estimateComponentRows(component, mmRels, entities, breakdown) ==
    LET adj == RelAdjacency([n \in Range(component) |-> <<>>], mmRels, 1)
        spanRels == SpanningTree(adj, [visited |-> {component[1]},
                                       queue |-> <<component[1]>>,
                                       spanRels |-> <<>>])
    IN IF spanRels = <<>>
       THEN LET entity == EntityMapGet(entities, component[1])
            IN [result |-> IF entity = NoEntity THEN 0 ELSE entity.estimated_rows,
                breakdown |-> breakdown]
       ELSE FanOutLoop(spanRels, 2, entities,
              [result |-> spanRels[1].estimated_links,
               breakdown |-> Append(breakdown,
                   [kind |-> "base", name |-> spanRels[1].name,
                    links |-> spanRels[1].estimated_links,
                    rows |-> 0, entity |-> ""])])

\* Variant: the filter keeps relationships of every type.
GrainMmRels_AnyType(relationships, grainEntities) ==
    SelectSeq(relationships,
        LAMBDA r : /\ Between(r, 1) \in Range(grainEntities)
                   /\ Between(r, 2) \in Range(grainEntities))

\* relationships.filter(r => r.type === "many-to-many" && grainSet.has(..) && grainSet.has(..))
GrainMmRels(relationships, grainEntities) ==
    SelectSeq(relationships,
        LAMBDA r : /\ r.type = "many-to-many"
                   /\ Between(r, 1) \in Range(grainEntities)
                   /\ Between(r, 2) \in Range(grainEntities))

Accumulate_Product(totalRows, componentRows) ==
    IF totalRows = 0 THEN componentRows ELSE totalRows * componentRows

\* totalRows += ...: adding this component's rows to the running total.
Accumulate(totalRows, componentRows) == totalRows + componentRows

\* for (const component of components): acc = [totalRows, breakdown, contribs]
RECURSIVE EstimateLoop(_, _, _, _, _)
EstimateLoop(components, i, mmRels, entities, acc) ==
    IF i > Len(components) THEN acc
    ELSE LET component == components[i]
         IN IF Len(component) = 1
            THEN LET entity == EntityMapGet(entities, component[1])
                 IN IF entity = NoEntity
                    THEN EstimateLoop(components, i + 1, mmRels, entities, acc)
                    ELSE EstimateLoop(components, i + 1, mmRels, entities,
                           [totalRows |-> Accumulate(acc.totalRows, entity.estimated_rows),
                            breakdown |-> Append(acc.breakdown,
                                [kind |-> "entity", name |-> entity.name, links |-> 0,
                                 rows |-> entity.estimated_rows, entity |-> entity.name]),
                            contribs |-> Append(acc.contribs,
                                [component |-> component, rows |-> entity.estimated_rows])])
            ELSE LET r == estimateComponentRows(component, mmRels, entities, acc.breakdown)
                 IN EstimateLoop(components, i + 1, mmRels, entities,
                           [totalRows |-> Accumulate(acc.totalRows, r.result),
                            breakdown |-> r.breakdown,
                            contribs |-> Append(acc.contribs,
                                [component |-> component, rows |-> r.result])])

\* The loop of estimateRows: the total, the breakdown and what each component added.
EstimateRowsLoop(entities, relationships, grainEntities) ==
    LET mmRels == GrainMmRels(relationships, grainEntities)
        components == findConnectedComponents(grainEntities, mmRels)
    IN EstimateLoop(components, 1, mmRels, entities,
                    [totalRows |-> 0, breakdown |-> <<>>, contribs |-> <<>>])

estimateRows(entities, relationships, grainEntities) ==
    LET r == EstimateRowsLoop(entities, relationships, grainEntities)
    IN [rows |-> r.totalRows,
        placeholder_row_count |-> 0,
        total |-> r.totalRows,
        breakdown |-> r.breakdown]

\* r.between[0] in the filter: a TypeError when a many-to-many relationship
\* has no between (r.type is tested first, so other types are not read).
estimateRowsThrows(relationships) ==
    \E i \in DOMAIN relationships :
        /\ relationships[i].type = "many-to-many"
        /\ ~relationships[i].between_is_array

----------------------------------------------------------------------------
(* helpers.ts: buildMetricOwnerMap; estimate.ts: estimateTableRows         *)

NoProp == [undefined |-> TRUE]

\* buildMetricOwnerMap(entities).get(metricName): the last entity that lists it.
MetricOwnerGet(entities, metricName) ==
    LET idx == {i \in DOMAIN entities : \E k \in DOMAIN entities[i].metrics :
                    entities[i].metrics[k].name = metricName}
    IN IF idx = {} THEN NoEntity
       ELSE entities[CHOOSE i \in idx : \A j \in idx : j <= i]

\* new Map(propagations.map(p => [p.metric, p])).get(metricName)
PropMapGet(propagations, metricName) ==
    LET idx == {i \in DOMAIN propagations : propagations[i].metric = metricName}
    IN IF idx = {} THEN NoProp
       ELSE propagations[CHOOSE i \in idx : \A j \in idx : j <= i]

\* if (grainSet.has(edge.target_entity)) chain.add(edge.target_entity)
ChainAddHop(chain, edge, grainSet) ==
    IF edge.target_entity \in grainSet THEN SetAdd(chain, edge.target_entity) ELSE chain

RECURSIVE ChainOfPath(_, _, _, _)
ChainOfPath(chain, path, i, grainSet) ==
    IF i > Len(path) THEN chain
    ELSE ChainOfPath(ChainAddHop(chain, path[i], grainSet), path, i + 1, grainSet)

\* for (const metricName of table.metrics): each metric's active entities.
RECURSIVE MetricChains(_, _, _, _)
MetricChains(m, t, i, chains) ==
    IF i > Len(t.metrics) THEN chains
    ELSE LET owner == MetricOwnerGet(m.entities, t.metrics[i])
             prop == PropMapGet(m.propagations, t.metrics[i])
         IN IF owner = NoEntity \/ owner.name \notin Range(t.entities)
            THEN MetricChains(m, t, i + 1, chains)
            ELSE MetricChains(m, t, i + 1,
                    Append(chains,
                        IF prop = NoProp THEN <<owner.name>>
                        ELSE ChainOfPath(<<owner.name>>, prop.path, 1, Range(t.entities))))

\* Some many-to-many relationship joins entityName to a member of chain.
ConnectsToChain(relationships, entityName, chain) ==
    \E r \in DOMAIN relationships :
        /\ relationships[r].type = "many-to-many"
        /\ \/ Between(relationships[r], 1) = entityName /\ Has(chain, Between(relationships[r], 2))
           \/ Between(relationships[r], 2) = entityName /\ Has(chain, Between(relationships[r], 1))

\* Variant: the loop over the chains has no break, so every chain that connects gets it.
MergeDimension_EveryChain(relationships, entityName, chains) ==
    IF \A c \in DOMAIN chains : ~ConnectsToChain(relationships, entityName, chains[c])
    THEN Append(chains, <<entityName>>)
    ELSE [c \in DOMAIN chains |->
             IF ConnectsToChain(relationships, entityName, chains[c])
             THEN SetAdd(chains[c], entityName) ELSE chains[c]]

\* for (const chain of chains): merge into the first chain that connects, else a singleton.
MergeDimension(relationships, entityName, chains) ==
    LET hit == {c \in DOMAIN chains : ConnectsToChain(relationships, entityName, chains[c])}
    IN IF hit = {} THEN Append(chains, <<entityName>>)
       ELSE LET c == CHOOSE x \in hit : \A y \in hit : x <= y
            IN [chains EXCEPT ![c] = SetAdd(@, entityName)]

\* for (const entityName of grainEntities) if (!coveredEntities.has(entityName)) ...
RECURSIVE FoldDimensions(_, _, _, _, _)
FoldDimensions(relationships, grainEntities, i, covered, chains) ==
    IF i > Len(grainEntities) THEN chains
    ELSE IF grainEntities[i] \in covered
         THEN FoldDimensions(relationships, grainEntities, i + 1, covered, chains)
         ELSE FoldDimensions(relationships, grainEntities, i + 1, covered,
                             MergeDimension(relationships, grainEntities[i], chains))

setsEqual(a, b) == Len(a) = Len(b) /\ \A i \in DOMAIN a : Has(b, a[i])

\* Variant: only the sizes are compared.
isStrictSubset_SizeOnly(small, large) == Len(small) < Len(large)

isStrictSubset(small, large) == Len(small) < Len(large) /\ \A i \in DOMAIN small : Has(large, small[i])

RECURSIVE UniqueChains(_, _, _)
UniqueChains(chains, i, unique) ==
    IF i > Len(chains) THEN unique
    ELSE UniqueChains(chains, i + 1,
            IF \E u \in DOMAIN unique : setsEqual(unique[u], chains[i])
            THEN unique ELSE Append(unique, chains[i]))

\* unique.filter((chain, i) => !unique.some((other, j) => i !== j && isStrictSubset(chain, other)))
RECURSIVE FilterSubsets(_, _, _)
FilterSubsets(unique, i, kept) ==
    IF i > Len(unique) THEN kept
    ELSE FilterSubsets(unique, i + 1,
            IF \E j \in DOMAIN unique : i # j /\ isStrictSubset(unique[i], unique[j])
            THEN kept ELSE Append(kept, unique[i]))

removeSubsetChains(chains) == FilterSubsets(UniqueChains(chains, 1, <<>>), 1, <<>>)

\* The chains before reduction: metric chains, then the pure dimension entities.
TableChains(m, t) ==
    LET chains == MetricChains(m, t, 1, <<>>)
        covered == UNION {Range(chains[c]) : c \in DOMAIN chains}
    IN FoldDimensions(m.relationships, t.entities, 1, covered, chains)

EstimateChains_Joined(m, effectiveChains, i, acc) ==
    LET all == UNION {Range(effectiveChains[c]) : c \in DOMAIN effectiveChains}
        order == CHOOSE q \in InjSeqs(all, Cardinality(all)) : Len(q) = Cardinality(all)
        est == estimateRows(m.entities, m.relationships, order)
    IN [totalRows |-> est.rows, breakdown |-> est.breakdown]

\* for (const chain of effectiveChains): acc = [totalRows, breakdown]
RECURSIVE EstimateChains(_, _, _, _)
EstimateChains(m, effectiveChains, i, acc) ==
    IF i > Len(effectiveChains) THEN acc
    ELSE LET est == estimateRows(m.entities, m.relationships, effectiveChains[i])
         IN EstimateChains(m, effectiveChains, i + 1,
                [totalRows |-> acc.totalRows + est.rows,
                 breakdown |-> acc.breakdown \o est.breakdown])

AddPlaceholderEntity_PerMetric(placeholderEntities, name) == Append(placeholderEntities, name)

\* placeholderEntities.add(owner.name)
AddPlaceholderEntity(placeholderEntities, name) == SetAdd(placeholderEntities, name)

\* for (const edge of prop.path): only hops whose target is in the grain count.
RECURSIVE PlaceholderHops(_, _, _, _, _)
PlaceholderHops(path, i, grainSet, ownerName, pe) ==
    IF i > Len(path) THEN pe
    ELSE IF path[i].target_entity \notin grainSet
         THEN PlaceholderHops(path, i + 1, grainSet, ownerName, pe)
         ELSE PlaceholderHops(path, i + 1, grainSet, ownerName,
                IF path[i].strategy = "reserve" \/ path[i].strategy = "elimination"
                THEN AddPlaceholderEntity(pe, ownerName) ELSE pe)

\* Variant: the owner is not tested against the grain.
RECURSIVE PlaceholderEntities_AnyOwner(_, _, _, _)
PlaceholderEntities_AnyOwner(m, t, i, pe) ==
    IF i > Len(t.metrics) THEN pe
    ELSE LET owner == MetricOwnerGet(m.entities, t.metrics[i])
             prop == PropMapGet(m.propagations, t.metrics[i])
         IN IF owner = NoEntity
            THEN PlaceholderEntities_AnyOwner(m, t, i + 1, pe)
            ELSE IF prop = NoProp
                 THEN PlaceholderEntities_AnyOwner(m, t, i + 1,
                        IF Len(t.entities) > 1 THEN AddPlaceholderEntity(pe, owner.name) ELSE pe)
                 ELSE PlaceholderEntities_AnyOwner(m, t, i + 1,
                        PlaceholderHops(prop.path, 1, Range(t.entities), owner.name, pe))

\* for (const metricName of table.metrics): the entities that need placeholder rows.
RECURSIVE PlaceholderEntities(_, _, _, _)
PlaceholderEntities(m, t, i, pe) ==
    IF i > Len(t.metrics) THEN pe
    ELSE LET owner == MetricOwnerGet(m.entities, t.metrics[i])
             prop == PropMapGet(m.propagations, t.metrics[i])
         IN IF owner = NoEntity \/ owner.name \notin Range(t.entities)
            THEN PlaceholderEntities(m, t, i + 1, pe)
            ELSE IF prop = NoProp
                 THEN PlaceholderEntities(m, t, i + 1,
                        IF Len(t.entities) > 1 THEN AddPlaceholderEntity(pe, owner.name) ELSE pe)
                 ELSE PlaceholderEntities(m, t, i + 1,
                        PlaceholderHops(prop.path, 1, Range(t.entities), owner.name, pe))

\* for (const entityName of placeholderEntities) placeholderRowCount += estimated_rows
RECURSIVE PlaceholderRowCount(_, _, _)
PlaceholderRowCount(entities, pe, i) ==
    IF i > Len(pe) THEN 0
    ELSE LET entity == EntityMapGet(entities, pe[i])
         IN (IF entity = NoEntity THEN 0 ELSE entity.estimated_rows)
            + PlaceholderRowCount(entities, pe, i + 1)

\* The locals of estimateTableRows at its return.
TableTrace(m, t) ==
    LET chains == TableChains(m, t)
    IN [components |-> <<>>,
        contribs |-> <<>>,
        chains |-> chains,
        effectiveChains |-> removeSubsetChains(chains),
        placeholderEntities |-> PlaceholderEntities(m, t, 1, <<>>),
        calls |-> 0]

\* Variant: total leaves the placeholder rows out.
estimateTableRows_TotalIsRows(m, t) ==
    LET tr == TableTrace(m, t)
        est == EstimateChains(m, tr.effectiveChains, 1, [totalRows |-> 0, breakdown |-> <<>>])
        placeholderRowCount == PlaceholderRowCount(m.entities, tr.placeholderEntities, 1)
    IN [rows |-> est.totalRows,
        placeholder_row_count |-> placeholderRowCount,
        total |-> est.totalRows,
        breakdown |->
            est.breakdown
            \o (IF Len(tr.effectiveChains) > 1
                THEN <<[kind |-> "groups", name |-> "UNION ALL", links |-> 0,
                        rows |-> Len(tr.effectiveChains), entity |-> ""]>>
                ELSE <<>>)
            \o (IF placeholderRowCount > 0
                THEN <<[kind |-> "placeholder", name |-> "Placeholder rows", links |-> 0,
                        rows |-> placeholderRowCount, entity |-> ""]>>
                ELSE <<>>)]

estimateTableRows(m, t) ==
    LET tr == TableTrace(m, t)
        est == EstimateChains(m, tr.effectiveChains, 1, [totalRows |-> 0, breakdown |-> <<>>])
        placeholderRowCount == PlaceholderRowCount(m.entities, tr.placeholderEntities, 1)
    IN [rows |-> est.totalRows,
        placeholder_row_count |-> placeholderRowCount,
        total |-> est.totalRows + placeholderRowCount,
        breakdown |->
            est.breakdown
            \o (IF Len(tr.effectiveChains) > 1
                THEN <<[kind |-> "groups", name |-> "UNION ALL", links |-> 0,
                        rows |-> Len(tr.effectiveChains), entity |-> ""]>>
                ELSE <<>>)
            \o (IF placeholderRowCount > 0
                THEN <<[kind |-> "placeholder", name |-> "Placeholder rows", links |-> 0,
                        rows |-> placeholderRowCount, entity |-> ""]>>
                ELSE <<>>)]

\* const [a, b] = rel.between in the merge loop, and the filter of every
\* estimateRows call: with at least one chain, a many-to-many relationship
\* without a between is read and the call throws a TypeError.
estimateTableRowsThrows(m, t) ==
    TableChains(m, t) # <<>> /\ estimateRowsThrows(m.relationships)

----------------------------------------------------------------------------
(* Arguments of estimateRows: entities with distinct row counts, and       *)
(* relationships drawn from a catalogue with both orientations, a cycle,   *)
(* a chain of three bridges and a many-to-one edge.                        *)

MaxRels == 3

Ent(n, r) == [name |-> n, estimated_rows |-> r, metrics |-> <<>>]
\* between_is_array is Array.isArray(rel.between): FALSE stands for a
\* relationship whose between is missing (undefined).
Rel(n, a, b, t, l) ==
    [name |-> n, between |-> <<a, b>>, between_is_array |-> TRUE,
     type |-> t, estimated_links |-> l]

GrainNames == {"A", "B", "C", "D"}

EstEntityLists ==
    { <<Ent("A", 2), Ent("B", 3), Ent("C", 4), Ent("D", 7)>>,
      <<Ent("A", 2), Ent("B", 3), Ent("D", 7)>> }

EstRelCatalogue ==
    { Rel("AB", "A", "B", "many-to-many", 3),
      Rel("CB", "C", "B", "many-to-many", 5),
      Rel("CD", "C", "D", "many-to-many", 5),
      Rel("CA", "C", "A", "many-to-many", 7),
      Rel("DB", "D", "B", "many-to-many", 4),
      Rel("AD1", "A", "D", "many-to-one", 6) }

InitEstimateRows ==
    /\ pc = "ready"
    /\ op = "estimateRows"
    /\ \E es \in EstEntityLists, rs \in InjSeqs(EstRelCatalogue, MaxRels) :
          manifest = [entities |-> es, relationships |-> rs,
                      propagations |-> <<>>, bft_tables |-> <<>>]
    /\ \E g \in InjSeqs(GrainNames, Cardinality(GrainNames)) :
          table = [name |-> "grain", entities |-> g, metrics |-> <<>>]
    /\ result = NoResult
    /\ trace = NoTrace
    /\ errors = <<>>

\* result = estimateRows(entities, relationships, grainEntities)
CallEstimateRows ==
    /\ pc = "ready"
    /\ op = "estimateRows"
    /\ IF estimateRowsThrows(manifest.relationships)
       THEN pc' = "raised" /\ UNCHANGED <<result, trace>>
       ELSE /\ result' = estimateRows(manifest.entities, manifest.relationships,
                                      table.entities)
            /\ trace' = [NoTrace EXCEPT !.contribs =
                            EstimateRowsLoop(manifest.entities, manifest.relationships,
                                             table.entities).contribs]
            /\ pc' = "done"
    /\ UNCHANGED <<op, manifest, table, errors>>

NextEstimateRows == CallEstimateRows

SpecEstimateRows == InitEstimateRows /\ [][NextEstimateRows]_vars

----------------------------------------------------------------------------
(* Arguments of findConnectedComponents: every list of distinct names out  *)
(* of A to D, two lists that repeat a name, and up to MaxRels edges of the *)
(* relationship catalogue; an edge touches a name outside the node set     *)
(* whenever the list leaves that name out.                                 *)

CompNameLists ==
    InjSeqs(GrainNames, Cardinality(GrainNames)) \cup {<<"A", "B", "A">>, <<"C", "C">>}

InitComponents ==
    /\ pc = "ready"
    /\ op = "findConnectedComponents"
    /\ \E rs \in InjSeqs(EstRelCatalogue, MaxRels) :
          manifest = [entities |-> <<>>, relationships |-> rs,
                      propagations |-> <<>>, bft_tables |-> <<>>]
    /\ \E ns \in CompNameLists : table = [name |-> "nodes", entities |-> ns, metrics |-> <<>>]
    /\ result = NoResult
    /\ trace = NoTrace
    /\ errors = <<>>

\* components = findConnectedComponents(entityNames, rels)
CallFindConnectedComponents ==
    /\ pc = "ready"
    /\ op = "findConnectedComponents"
    /\ trace' = [NoTrace EXCEPT !.components =
                    findConnectedComponents(table.entities, manifest.relationships)]
    /\ pc' = "done"
    /\ UNCHANGED <<op, manifest, table, result, errors>>

NextComponents == CallFindConnectedComponents

SpecComponents == InitComponents /\ [][NextComponents]_vars

----------------------------------------------------------------------------
(* Arguments of estimateTableRows: three entities (A owns a1 and a2, C owns *)
(* c1, B owns nothing), relationship lists, every ordered grain over them,  *)
(* and up to MaxTableMetrics table metrics, each with the propagation the   *)
(* manifest declares for it (or none).                                      *)

MaxPath == 2
MaxTableMetrics == 2

Metric(n, nat) == [name |-> n, nature |-> nat]
EntM(n, r, ms) == [name |-> n, estimated_rows |-> r, metrics |-> ms]
Hop(rel, target, strategy, weight) ==
    [relationship |-> rel, target_entity |-> target, strategy |-> strategy, weight |-> weight]

\* Sequences over S of length 0..n.
RECURSIVE SeqsUpTo(_, _)
SeqsUpTo(S, n) ==
    IF n = 0 THEN {<<>>}
    ELSE LET shorter == SeqsUpTo(S, n - 1)
         IN shorter \cup {Append(s, x) : s \in {t \in shorter : Len(t) = n - 1}, x \in S}

TblEntities ==
    <<EntM("A", 2, <<Metric("a1", "additive"), Metric("a2", "additive")>>),
      EntM("B", 3, <<>>),
      EntM("C", 4, <<Metric("c1", "additive")>>)>>

TblRelLists ==
    { <<>>,
      <<Rel("AB", "A", "B", "many-to-many", 5), Rel("CB", "C", "B", "many-to-many", 7)>>,
      <<Rel("CA", "C", "A", "many-to-many", 3), Rel("AB1", "A", "B", "many-to-one", 2)>> }

TblHops ==
    {Hop("AB", "B", st, "") : st \in {"reserve", "elimination", "allocation"}}
    \cup {Hop("CB", "C", st, "") : st \in {"reserve", "elimination", "allocation"}}

\* What the manifest may declare for a table metric: nothing, or a path.
Undeclared == [declared |-> FALSE, path |-> <<>>]
DeclaredPath(p) == [declared |-> TRUE, path |-> p]

TblDeclsOf(metricName) ==
    CASE metricName = "a1" -> {Undeclared} \cup {DeclaredPath(p) : p \in SeqsUpTo(TblHops, MaxPath)}
      [] metricName = "c1" -> {Undeclared,
                               DeclaredPath(<<Hop("CB", "B", "allocation", "w")>>),
                               DeclaredPath(<<Hop("CB", "B", "reserve", "")>>)}
      [] OTHER -> {Undeclared}

TblMetricNames == {"a1", "a2", "c1", "ghost"}

\* Table metrics with their declarations: [metric, decl] records, distinct metrics.
RECURSIVE TblMetricSpecs(_)
TblMetricSpecs(n) ==
    IF n = 0 THEN {<<>>}
    ELSE LET shorter == TblMetricSpecs(n - 1)
         IN shorter \cup UNION {
                UNION {{Append(s, [metric |-> mn, decl |-> d]) : d \in TblDeclsOf(mn)} :
                       mn \in TblMetricNames \ {s[k].metric : k \in DOMAIN s}} :
                s \in {t \in shorter : Len(t) = n - 1}}

PropsOfSpecs(specs) ==
    LET declared == SelectSeq(specs, LAMBDA x : x.decl.declared)
    IN [k \in DOMAIN declared |-> [metric |-> declared[k].metric, path |-> declared[k].decl.path]]

InitTable ==
    /\ pc = "ready"
    /\ op = "estimateTableRows"
    /\ \E rs \in TblRelLists, specs \in TblMetricSpecs(MaxTableMetrics),
          g \in InjSeqs({"A", "B", "C"}, 3) :
          /\ manifest = [entities |-> TblEntities, relationships |-> rs,
                         propagations |-> PropsOfSpecs(specs), bft_tables |-> <<>>]
          /\ table = [name |-> "t", entities |-> g,
                      metrics |-> [k \in DOMAIN specs |-> specs[k].metric]]
    /\ result = NoResult
    /\ trace = NoTrace
    /\ errors = <<>>

\* result = estimateTableRows(manifest, table)
CallEstimateTableRows ==
    /\ pc = "ready"
    /\ op = "estimateTableRows"
    /\ IF estimateTableRowsThrows(manifest, table)
       THEN pc' = "raised" /\ UNCHANGED <<result, trace>>
       ELSE /\ result' = estimateTableRows(manifest, table)
            /\ trace' = TableTrace(manifest, table)
            /\ pc' = "done"
    /\ UNCHANGED <<op, manifest, table, errors>>

NextTable == CallEstimateTableRows

SpecTable == InitTable /\ [][NextTable]_vars

----------------------------------------------------------------------------
(* Claims about estimateRows.  The reference definitions below state what  *)
(* the claims say, on sets and with the parent of every tree edge tracked  *)
(* explicitly; they do not use the operators that model the code.          *)

EstimateRowsDone == pc = "done" /\ op = "estimateRows"

Declared(names) == \A n \in names : \E i \in DOMAIN manifest.entities :
                                        manifest.entities[i].name = n

RowsOf(n) == EntityMapGet(manifest.entities, n).estimated_rows

\* The many-to-many relationships with both endpoints in the grain.
RefEdges == {i \in DOMAIN manifest.relationships :
                /\ manifest.relationships[i].type = "many-to-many"
                /\ Len(manifest.relationships[i].between) >= 2
                /\ manifest.relationships[i].between[1] \in Range(table.entities)
                /\ manifest.relationships[i].between[2] \in Range(table.entities)}

RefStep(S) == S \cup {n \in Range(table.entities) :
                        \E i \in RefEdges :
                            LET b == manifest.relationships[i].between
                            IN (b[1] \in S /\ b[2] = n) \/ (b[2] \in S /\ b[1] = n)}

RECURSIVE RefReach(_)
RefReach(S) == IF RefStep(S) = S THEN S ELSE RefReach(RefStep(S))

\* The partition of the grain into connected components.
RefComponents == {RefReach({n}) : n \in Range(table.entities)}

\* The component's first grain entity.
RefRoot(K) == table.entities[CHOOSE i \in DOMAIN table.entities :
                  /\ table.entities[i] \in K
                  /\ \A j \in DOMAIN table.entities : table.entities[j] \in K => i <= j]

\* Breadth-first tree of K from its root: the tree edges in discovery order,
\* each with the endpoint that was already in the tree (parent).
RECURSIVE RefScan(_, _, _, _)
RefScan(u, i, visited, found) ==
    IF i > Len(manifest.relationships) THEN [visited |-> visited, found |-> found]
    ELSE LET b == manifest.relationships[i].between
             v == IF b[1] = u THEN b[2] ELSE b[1]
         IN IF i \in RefEdges /\ u \in {b[1], b[2]} /\ v \notin visited
            THEN RefScan(u, i + 1, visited \cup {v},
                         Append(found, [links |-> manifest.relationships[i].estimated_links,
                                        parent |-> u, child |-> v]))
            ELSE RefScan(u, i + 1, visited, found)

RECURSIVE RefTree(_, _, _)
RefTree(queue, visited, edges) ==
    IF queue = <<>> THEN edges
    ELSE LET r == RefScan(Head(queue), 1, visited, <<>>)
         IN RefTree(Tail(queue) \o [k \in DOMAIN r.found |-> r.found[k].child],
                    r.visited, edges \o r.found)

\* The integer nearest to num / den, a half going up.
RefNearest(num, den) ==
    CHOOSE k \in 0..num : -den < 2 * (k * den - num) /\ 2 * (k * den - num) <= den

RECURSIVE RefFold(_, _, _)
RefFold(edges, i, total) ==
    IF i > Len(edges) THEN total
    ELSE RefFold(edges, i + 1,
                 RefNearest(total * edges[i].links, RowsOf(edges[i].parent)))

RefTreeOf(K) == RefTree(<<RefRoot(K)>>, {RefRoot(K)}, <<>>)

RefComponentRows(K) == RefFold(RefTreeOf(K), 2, RefTreeOf(K)[1].links)

RefContribution(K) ==
    IF Cardinality(K) = 1 THEN RowsOf(CHOOSE n \in K : TRUE) ELSE RefComponentRows(K)

RECURSIVE RefSum(_)
RefSum(Ks) ==
    IF Ks = {} THEN 0
    ELSE LET K == CHOOSE y \in Ks : TRUE IN RefContribution(K) + RefSum(Ks \ {K})

\* C1: a component of two or more grain entities joined by many-to-many
\* relationships contributes the value computed along the breadth-first
\* spanning tree from the component's first grain entity: the first tree edge
\* gives its estimated_links, and every later tree edge, in discovery order,
\* sets total := round(total * links / estimated_rows of the endpoint that was
\* already in the tree), rounding after every multiplication.
C1_SpanningTreeFanOut ==
    EstimateRowsDone =>
        \A i \in DOMAIN trace.contribs :
            LET K == Range(trace.contribs[i].component)
            IN (Cardinality(K) >= 2 /\ Declared(K)) =>
                   trace.contribs[i].rows = RefComponentRows(K)

\* A component of four entities whose tree has a later edge entered through
\* the relationship's second endpoint, and where a rounding happened.
C1_Witness ==
    /\ EstimateRowsDone
    /\ \E i \in DOMAIN trace.contribs :
          LET K == Range(trace.contribs[i].component)
              t == RefTreeOf(K)
          IN /\ Cardinality(K) = 4 /\ Declared(K)
             /\ \E k \in 2..Len(t), j \in RefEdges :
                    /\ manifest.relationships[j].between = <<t[k].child, t[k].parent>>
                    /\ (t[k].links * t[1].links) % RowsOf(t[k].parent) # 0
             /\ trace.contribs[i].rows = RefComponentRows(K)

\* C2: rows is the sum over the connected components of the grain (under
\* in-grain many-to-many relationships) of each component's contribution; a
\* singleton contributes its entity's estimated_rows; components never multiply.
C2_SparseUnion ==
    (EstimateRowsDone /\ Declared(Range(table.entities))) =>
        result.rows = RefSum(RefComponents)

\* Two unrelated declared entities, and a bridge component beside a singleton.
C2_Witness ==
    /\ EstimateRowsDone
    /\ Declared(Range(table.entities))
    /\ Cardinality(RefComponents) >= 2
    /\ \E K \in RefComponents : Cardinality(K) >= 2
    /\ \E K \in RefComponents : Cardinality(K) = 1
    /\ result.rows = RefSum(RefComponents)

----------------------------------------------------------------------------
(* Claims about estimateTableRows.                                         *)

TableDone == pc = "done" /\ op = "estimateTableRows"

GrainSet == Range(table.entities)

\* The chains (before reduction) that survive deduplication and subset
\* removal: the first of each set of equal chains, if no chain strictly holds it.
RefSurvivors ==
    {i \in DOMAIN trace.chains :
        /\ \A j \in DOMAIN trace.chains :
              Range(trace.chains[j]) = Range(trace.chains[i]) => i <= j
        /\ \A j \in DOMAIN trace.chains :
              ~(Range(trace.chains[i]) \subseteq Range(trace.chains[j])
                /\ Range(trace.chains[i]) # Range(trace.chains[j]))}

RefChainRows(i) == estimateRows(manifest.entities, manifest.relationships, trace.chains[i]).rows

RECURSIVE RefChainSum(_)
RefChainSum(I) ==
    IF I = {} THEN 0
    ELSE LET i == CHOOSE x \in I : TRUE IN RefChainRows(i) + RefChainSum(I \ {i})

\* C3: rows is the sum over the surviving chains of estimateRows(entities,
\* relationships, chain).rows; chains are never joined with each other.
C3_ChainsSummed ==
    TableDone => result.rows = RefChainSum(RefSurvivors)

\* Two surviving chains that share an entity and are not subsets of one
\* another, {A, B} and {C, B}: rows is links(A-B) + links(C-B), 5 + 7.
C3_Witness ==
    /\ TableDone
    /\ \E i, j \in RefSurvivors :
          /\ i # j
          /\ Range(trace.chains[i]) = {"A", "B"}
          /\ Range(trace.chains[j]) = {"C", "B"}
          /\ RefChainRows(i) = 5 /\ RefChainRows(j) = 7
    /\ Cardinality(RefSurvivors) = 2
    /\ result.rows = 12

\* The manifest with every hop whose target is outside the grain deleted from
\* its path; a propagation that the deletion leaves with no hops is not declared.
StripPath(path) == SelectSeq(path, LAMBDA e : e.target_entity \in GrainSet)

StrippedManifest ==
    LET kept == SelectSeq(manifest.propagations,
                          LAMBDA q : q.path = <<>> \/ StripPath(q.path) # <<>>)
    IN [manifest EXCEPT !.propagations =
            [k \in DOMAIN kept |-> [metric |-> kept[k].metric,
                                    path |-> StripPath(kept[k].path)]]]

SameCounts(r1, r2) ==
    r1.rows = r2.rows /\ r1.placeholder_row_count = r2.placeholder_row_count

\* C4: hops whose target_entity is not in table.entities are inert: rows and
\* placeholder_row_count equal the values obtained when every such hop is
\* deleted from its path, a propagation left with no hops counting as not declared.
C4_OutOfGrainHopsInert ==
    TableDone => SameCounts(result, estimateTableRows(StrippedManifest, table))

\* C5: placeholder_row_count is the sum of estimated_rows over the distinct home
\* entities H in the grain for which some table metric owned by H has no
\* declared propagation while the grain has more than one entity, or has a
\* declared hop whose target is in the grain and whose strategy is reserve or
\* elimination; each H counts once.
RefOwns(H, metricName) ==
    \E i \in DOMAIN manifest.entities :
        /\ manifest.entities[i].name = H
        /\ \E k \in DOMAIN manifest.entities[i].metrics :
              manifest.entities[i].metrics[k].name = metricName

RefTriggers(metricName) ==
    \/ /\ \A p \in DOMAIN manifest.propagations :
              manifest.propagations[p].metric # metricName
       /\ Cardinality(GrainSet) > 1
    \/ \E p \in DOMAIN manifest.propagations :
          /\ manifest.propagations[p].metric = metricName
          /\ \E h \in DOMAIN manifest.propagations[p].path :
                /\ manifest.propagations[p].path[h].target_entity \in GrainSet
                /\ manifest.propagations[p].path[h].strategy \in {"reserve", "elimination"}

RefPlaceholderHomes ==
    {H \in GrainSet : \E k \in DOMAIN table.metrics :
                          RefOwns(H, table.metrics[k]) /\ RefTriggers(table.metrics[k])}

RECURSIVE RefRowsSum(_)
RefRowsSum(Hs) ==
    IF Hs = {} THEN 0
    ELSE LET H == CHOOSE x \in Hs : TRUE IN RowsOf(H) + RefRowsSum(Hs \ {H})

----------------------------------------------------------------------------
(* validate.ts: validate and its five checks.  Each check receives the     *)
(* errors array and pushes onto it; here it takes the array so far and     *)
(* returns the array after its pushes.  A ValidationError is a record of   *)
(* rule, message and path, the strings the code builds (the dash of two    *)
(* messages is written -- here).                                           *)

ValidationError(rule, message, path) == [rule |-> rule, message |-> message, path |-> path]

\* A JS number the validator only tests: num/den.  Number.isInteger and
\* template formatting of it.
Num(n, d) == [num |-> n, den |-> d]
\* Variant: every number passes for an integer.
NumberIsInteger_Always(x) == TRUE
NumberIsInteger(x) == x.num % x.den = 0
NumberToString(x) ==
    IF NumberIsInteger(x) THEN ToString(x.num \div x.den)
    ELSE ToString(x.num \div x.den) \o "." \o ToString(((10 * x.num) \div x.den) % 10)

RECURSIVE checkDuplicatesLoop(_, _, _, _, _)
checkDuplicatesLoop(names, kind, i, seen, errs) ==
    IF i > Len(names) THEN errs
    ELSE checkDuplicatesLoop(names, kind, i + 1, SetAdd(seen, names[i]),
            IF Has(seen, names[i])
            THEN Append(errs, ValidationError("no-duplicates",
                     "Duplicate " \o kind \o " name: \"" \o names[i] \o "\"",
                     kind \o "s." \o names[i]))
            ELSE errs)

\* Variant: a name is forgotten once its repeat is reported.
RECURSIVE checkDuplicates_Forgetful(_, _, _)
checkDuplicates_Forgetful(names, kind, errs) ==
    IF names = <<>> THEN errs
    ELSE LET later == {i \in 2..Len(names) : names[i] = names[1]}
             k == CHOOSE i \in later : \A j \in later : i <= j
         IN IF later = {} THEN checkDuplicates_Forgetful(Tail(names), kind, errs)
            ELSE checkDuplicates_Forgetful(
                     [i \in 1..(Len(names) - 2) |->
                          IF i < k - 1 THEN names[i + 1] ELSE names[i + 2]],
                     kind,
                     Append(errs, ValidationError("no-duplicates",
                         "Duplicate " \o kind \o " name: \"" \o names[1] \o "\"",
                         kind \o "s." \o names[1])))

checkDuplicates(names, kind, errs) == checkDuplicatesLoop(names, kind, 1, <<>>, errs)

RECURSIVE AllMetricNames(_, _)
AllMetricNames(entities, i) ==
    IF i > Len(entities) THEN <<>>
    ELSE [k \in DOMAIN entities[i].metrics |-> entities[i].metrics[k].name]
         \o AllMetricNames(entities, i + 1)

checkDuplicateNames(m, errs) ==
    LET e1 == checkDuplicates([i \in DOMAIN m.entities |-> m.entities[i].name], "entity", errs)
        e2 == checkDuplicates(AllMetricNames(m.entities, 1), "metric", e1)
        e3 == checkDuplicates([i \in DOMAIN m.relationships |-> m.relationships[i].name],
                              "relationship", e2)
        e4 == checkDuplicates([i \in DOMAIN m.propagations |-> m.propagations[i].metric],
                              "propagation", e3)
    IN checkDuplicates([i \in DOMAIN m.bft_tables |-> m.bft_tables[i].name], "table", e4)

RECURSIVE EntityCardinalities(_, _, _)
EntityCardinalities(entities, i, errs) ==
    IF i > Len(entities) THEN errs
    ELSE LET entity == entities[i]
         IN EntityCardinalities(entities, i + 1,
                IF ~NumberIsInteger(entity.estimated_rows) \/ entity.estimated_rows.num <= 0
                THEN Append(errs, ValidationError("positive-cardinality",
                         "Entity \"" \o entity.name \o "\" has invalid estimated_rows: "
                             \o NumberToString(entity.estimated_rows)
                             \o " (must be a positive integer)",
                         "entities." \o entity.name \o ".estimated_rows"))
                ELSE errs)

RECURSIVE RelationshipCardinalities(_, _, _)
RelationshipCardinalities(rels, i, errs) ==
    IF i > Len(rels) THEN errs
    ELSE LET rel == rels[i]
         IN RelationshipCardinalities(rels, i + 1,
                IF ~NumberIsInteger(rel.estimated_links) \/ rel.estimated_links.num <= 0
                THEN Append(errs, ValidationError("positive-cardinality",
                         "Relationship \"" \o rel.name \o "\" has invalid estimated_links: "
                             \o NumberToString(rel.estimated_links)
                             \o " (must be a positive integer)",
                         "relationships." \o rel.name \o ".estimated_links"))
                ELSE errs)

checkPositiveCardinalities(m, errs) ==
    RelationshipCardinalities(m.relationships, 1, EntityCardinalities(m.entities, 1, errs))

RECURSIVE BetweenEntitiesExist(_, _, _, _)
BetweenEntitiesExist(rel, k, entities, errs) ==
    IF k > Len(rel.between) THEN errs
    ELSE BetweenEntitiesExist(rel, k + 1, entities,
            IF EntityMapGet(entities, rel.between[k]) = NoEntity
            THEN Append(errs, ValidationError("relationship-entity-exists",
                     "Relationship \"" \o rel.name \o "\" references nonexistent entity \""
                         \o rel.between[k] \o "\"",
                     "relationships." \o rel.name \o ".between"))
            ELSE errs)

RECURSIVE checkRelationshipEntitiesLoop(_, _, _)
checkRelationshipEntitiesLoop(m, i, errs) ==
    IF i > Len(m.relationships) THEN errs
    ELSE LET rel == m.relationships[i]
         IN checkRelationshipEntitiesLoop(m, i + 1,
                IF ~rel.between_is_array \/ Len(rel.between) # 2
                THEN Append(errs, ValidationError("relationship-between-pair",
                         "Relationship \"" \o rel.name
                             \o "\" must have exactly 2 entities in \"between\", got "
                             \o (IF rel.between_is_array THEN ToString(Len(rel.between))
                                 ELSE "undefined"),
                         "relationships." \o rel.name \o ".between"))
                ELSE BetweenEntitiesExist(rel, 1, m.entities, errs))

\* Variant: a relationship whose between is not a pair still has its names
\* looked up.
RECURSIVE checkRelationshipEntities_NoContinueLoop(_, _, _)
checkRelationshipEntities_NoContinueLoop(m, i, errs) ==
    IF i > Len(m.relationships) THEN errs
    ELSE LET rel == m.relationships[i]
             pair == IF ~rel.between_is_array \/ Len(rel.between) # 2
                     THEN Append(errs, ValidationError("relationship-between-pair",
                              "Relationship \"" \o rel.name
                                  \o "\" must have exactly 2 entities in \"between\", got "
                                  \o (IF rel.between_is_array THEN ToString(Len(rel.between))
                                      ELSE "undefined"),
                              "relationships." \o rel.name \o ".between"))
                     ELSE errs
         IN checkRelationshipEntities_NoContinueLoop(m, i + 1,
                BetweenEntitiesExist(rel, 1, m.entities, pair))

checkRelationshipEntities_NoContinue(m, errs) ==
    checkRelationshipEntities_NoContinueLoop(m, 1, errs)

checkRelationshipEntities(m, errs) == checkRelationshipEntitiesLoop(m, 1, errs)

VALID_STRATEGIES == {"reserve", "elimination", "allocation", "sum_over_sum"}

NoMetricDef == [name |-> Undefined, nature |-> Undefined]

\* findMetricDef: the first metric of that name, entities and metrics in order.
findMetricDef(entities, metricName) ==
    LET idx == {i \in DOMAIN entities : \E k \in DOMAIN entities[i].metrics :
                    entities[i].metrics[k].name = metricName}
    IN IF idx = {} THEN NoMetricDef
       ELSE LET e == entities[CHOOSE i \in idx : \A j \in idx : i <= j]
                ks == {k \in DOMAIN e.metrics : e.metrics[k].name = metricName}
            IN e.metrics[CHOOSE k \in ks : \A j \in ks : k <= j]

\* new Map(relationships.map(r => [r.name, r])).get(name), for a name the Map has.
RelMapGet(relationships, name) ==
    LET idx == {i \in DOMAIN relationships : relationships[i].name = name}
    IN relationships[CHOOSE i \in idx : \A j \in idx : j <= i]

HopPath(metricName, i) == "propagations." \o metricName \o ".path[" \o ToString(i) \o "]"

PushIf(cond, errs, e) == IF cond THEN Append(errs, e) ELSE errs

\* One iteration of the loop over prop.path; i is the JS index.  st holds the
\* errors array, currentEntity, visited, and whether rel.between[0] threw.
WalkHop(m, metricName, def, edge, i, st) ==
    IF ~\E r \in DOMAIN m.relationships : m.relationships[r].name = edge.relationship
    THEN [st EXCEPT !.errors = Append(@, ValidationError("propagation-relationship-exists",
             "Propagation for \"" \o metricName \o "\" references nonexistent relationship \""
                 \o edge.relationship \o "\"",
             HopPath(metricName, i)))]
    ELSE IF EntityMapGet(m.entities, edge.target_entity) = NoEntity
    THEN [st EXCEPT !.errors = Append(@, ValidationError("propagation-entity-exists",
             "Propagation for \"" \o metricName \o "\" references nonexistent target entity \""
                 \o edge.target_entity \o "\"",
             HopPath(metricName, i)))]
    ELSE LET rel == RelMapGet(m.relationships, edge.relationship)
         IN IF ~rel.between_is_array THEN [st EXCEPT !.raised = TRUE]
            ELSE
            LET connects ==
                    \/ Between(rel, 1) = st.currentEntity /\ Between(rel, 2) = edge.target_entity
                    \/ Between(rel, 2) = st.currentEntity /\ Between(rel, 1) = edge.target_entity
                e1 == PushIf(~connects, st.errors, ValidationError("propagation-path-connected",
                          "Propagation for \"" \o metricName \o "\": relationship \""
                              \o edge.relationship \o "\" does not connect \""
                              \o st.currentEntity \o "\" to \"" \o edge.target_entity \o "\"",
                          HopPath(metricName, i)))
                e2 == PushIf(edge.strategy \notin VALID_STRATEGIES, e1,
                          ValidationError("valid-strategy",
                          "Propagation for \"" \o metricName \o "\" has invalid strategy \""
                              \o edge.strategy
                              \o "\" -- must be one of: reserve, elimination, allocation, sum_over_sum",
                          HopPath(metricName, i)))
                e3 == PushIf(edge.strategy \in {"allocation", "sum_over_sum"} /\ edge.weight = "",
                          e2, ValidationError("strategy-weight-required",
                          "Propagation for \"" \o metricName \o "\": strategy \""
                              \o edge.strategy \o "\" requires a weight",
                          HopPath(metricName, i)))
                e4 == PushIf(Has(st.visited, edge.target_entity), e3,
                          ValidationError("propagation-no-cycle",
                          "Propagation for \"" \o metricName \o "\" creates a cycle: \""
                              \o edge.target_entity \o "\" already visited",
                          HopPath(metricName, i)))
                e5 == PushIf(/\ def # NoMetricDef
                             /\ def.nature = "non-additive"
                             /\ edge.strategy \in {"allocation", "elimination"},
                          e4, ValidationError("non-additive-strategy",
                          "Non-additive metric \"" \o metricName \o "\" cannot use \""
                              \o edge.strategy
                              \o "\" strategy -- must use \"sum_over_sum\" or \"reserve\"",
                          HopPath(metricName, i)))
            IN [raised |-> FALSE, errors |-> e5,
                currentEntity |-> edge.target_entity,
                visited |-> SetAdd(st.visited, edge.target_entity)]

RECURSIVE WalkPath(_, _, _, _, _, _)
WalkPath(m, metricName, def, path, i, st) ==
    IF st.raised \/ i >= Len(path) THEN st
    ELSE WalkPath(m, metricName, def, path, i + 1,
                  WalkHop(m, metricName, def, path[i + 1], i, st))

\* Variant: the visited set starts empty, without the home entity.
CheckPropagation_HomeUnvisited(m, prop, errs) ==
    LET owner == MetricOwnerGet(m.entities, prop.metric)
    IN IF owner = NoEntity
       THEN [raised |-> FALSE, errors |-> Append(errs, ValidationError("propagation-metric-exists",
                "Propagation references nonexistent metric \"" \o prop.metric \o "\"",
                "propagations." \o prop.metric))]
       ELSE IF Len(prop.path) = 0
       THEN [raised |-> FALSE, errors |-> Append(errs, ValidationError("propagation-path-nonempty",
                "Propagation for \"" \o prop.metric
                    \o "\" has an empty path -- omit the propagation to use reserve",
                "propagations." \o prop.metric))]
       ELSE LET st == WalkPath(m, prop.metric, findMetricDef(m.entities, prop.metric),
                               prop.path, 0,
                               [raised |-> FALSE, errors |-> errs,
                                currentEntity |-> owner.name, visited |-> <<>>])
            IN [raised |-> st.raised, errors |-> st.errors]

\* One iteration of the loop over manifest.propagations.
CheckPropagation(m, prop, errs) ==
    LET owner == MetricOwnerGet(m.entities, prop.metric)
    IN IF owner = NoEntity
       THEN [raised |-> FALSE, errors |-> Append(errs, ValidationError("propagation-metric-exists",
                "Propagation references nonexistent metric \"" \o prop.metric \o "\"",
                "propagations." \o prop.metric))]
       ELSE IF Len(prop.path) = 0
       THEN [raised |-> FALSE, errors |-> Append(errs, ValidationError("propagation-path-nonempty",
                "Propagation for \"" \o prop.metric
                    \o "\" has an empty path -- omit the propagation to use reserve",
                "propagations." \o prop.metric))]
       ELSE LET st == WalkPath(m, prop.metric, findMetricDef(m.entities, prop.metric),
                               prop.path, 0,
                               [raised |-> FALSE, errors |-> errs,
                                currentEntity |-> owner.name, visited |-> <<owner.name>>])
            IN [raised |-> st.raised, errors |-> st.errors]

RECURSIVE checkPropagationsLoop(_, _, _)
checkPropagationsLoop(m, p, r) ==
    IF r.raised \/ p > Len(m.propagations) THEN r
    ELSE checkPropagationsLoop(m, p + 1, CheckPropagation(m, m.propagations[p], r.errors))

\* raised: the call threw a TypeError (rel.between[0] of a missing between).
checkPropagations(m, errs) == checkPropagationsLoop(m, 1, [raised |-> FALSE, errors |-> errs])

RECURSIVE TableMetricsLoop(_, _, _, _, _)
TableMetricsLoop(m, tbl, k, seen, errs) ==
    IF k > Len(tbl.metrics) THEN errs
    ELSE LET metricName == tbl.metrics[k]
             e1 == PushIf(Has(seen, metricName), errs, ValidationError("table-metric-unique",
                       "Table \"" \o tbl.name \o "\" lists metric \"" \o metricName
                           \o "\" more than once",
                       "bft_tables." \o tbl.name \o ".metrics"))
             e2 == PushIf(MetricOwnerGet(m.entities, metricName) = NoEntity, e1,
                       ValidationError("table-metric-exists",
                       "Table \"" \o tbl.name \o "\" references nonexistent metric \""
                           \o metricName \o "\"",
                       "bft_tables." \o tbl.name \o ".metrics." \o metricName))
         IN TableMetricsLoop(m, tbl, k + 1, SetAdd(seen, metricName), e2)

RECURSIVE checkTableMetricsLoop(_, _, _)
checkTableMetricsLoop(m, t, errs) ==
    IF t > Len(m.bft_tables) THEN errs
    ELSE checkTableMetricsLoop(m, t + 1, TableMetricsLoop(m, m.bft_tables[t], 1, <<>>, errs))

checkTableMetrics(m, errs) == checkTableMetricsLoop(m, 1, errs)

\* Variant: the table metrics are checked first.
validate_TablesFirst(m) ==
    LET e0 == checkTableMetrics(m, <<>>)
        e1 == checkDuplicateNames(m, e0)
        e2 == checkPositiveCardinalities(m, e1)
        e3 == checkRelationshipEntities(m, e2)
        r4 == checkPropagations(m, e3)
    IN IF r4.raised THEN [raised |-> TRUE, errors |-> <<>>]
       ELSE [raised |-> FALSE, errors |-> r4.errors]

\* validate: the five checks in order on one errors array.  When
\* checkPropagations throws, validate throws and returns nothing.
validate(m) ==
    LET e1 == checkDuplicateNames(m, <<>>)
        e2 == checkPositiveCardinalities(m, e1)
        e3 == checkRelationshipEntities(m, e2)
        r4 == checkPropagations(m, e3)
    IN IF r4.raised THEN [raised |-> TRUE, errors |-> <<>>]
       ELSE [raised |-> FALSE, errors |-> checkTableMetrics(m, r4.errors)]

----------------------------------------------------------------------------
(* Arguments of validate.  A (2 rows) owns the additive metric m1, B owns   *)
(* the non-additive n1, C owns nothing; AB is declared A-B and CB is        *)
(* declared C-B, so B to C walks CB against its declared order.  X is an    *)
(* entity and ZZ a relationship that nothing declares.                      *)

MaxValidatePath == 2

EntV(n, rows, ms) == [name |-> n, estimated_rows |-> rows, metrics |-> ms]
RelV(n, between, isArray, links) ==
    [name |-> n, between |-> between, between_is_array |-> isArray,
     type |-> "many-to-many", estimated_links |-> links]
Prop(metricName, path) == [metric |-> metricName, path |-> path]
Tbl(n, es, ms) == [name |-> n, entities |-> es, metrics |-> ms]

ValEntities ==
    <<EntV("A", Num(2, 1), <<Metric("m1", "additive")>>),
      EntV("B", Num(3, 1), <<Metric("n1", "non-additive")>>),
      EntV("C", Num(4, 1), <<>>)>>

ValRelAB == RelV("AB", <<"A", "B">>, TRUE, Num(5, 1))
ValRelCB == RelV("CB", <<"C", "B">>, TRUE, Num(7, 1))

\* Well-formed relationships, and the same with CB's between missing.
ValWalkRelLists ==
    { <<ValRelAB, ValRelCB>>,
      <<ValRelAB, RelV("CB", <<>>, FALSE, Num(7, 1))>> }

\* Hops that resolve (AB to B or A, CB to C), that name the undeclared ZZ or
\* X, and that name a relationship between other entities (CB to A) or
\* return to B.
ValHopEnds ==
    { <<"AB", "B">>, <<"AB", "A">>, <<"CB", "C">>, <<"ZZ", "C">>, <<"AB", "X">> }

ValReserveHopEnds == { <<"CB", "B">>, <<"CB", "A">>, <<"ZZ", "B">> }

ValHopModes ==
    { <<"reserve", "">>, <<"elimination", "">>, <<"allocation", "">>,
      <<"allocation", "w">>, <<"sum_over_sum", "">>, <<"sum_over_sum", "w">> }

ValHops ==
    {Hop(e[1], e[2], s[1], s[2]) : e \in ValHopEnds, s \in ValHopModes}
    \cup {Hop(e[1], e[2], "reserve", "") : e \in ValReserveHopEnds}

\* Lists with a repeated entity and metric name and with row counts that are
\* zero, negative and fractional.
ValEntityLists ==
    { ValEntities,
      <<EntV("A", Num(0, 1), <<Metric("m1", "additive")>>),
        EntV("B", Num(3, 2), <<Metric("n1", "non-additive"), Metric("m1", "non-additive")>>),
        EntV("A", Num(-1, 1), <<>>)>> }

\* Lists with a relationship name used three times, a between of one and of three
\* names, an undeclared endpoint and a link count that is not positive.
ValRelLists ==
    { <<ValRelAB, ValRelCB>>,
      <<ValRelAB, RelV("AB", <<"B", "C">>, TRUE, Num(0, 1)),
        RelV("AB", <<"A", "B">>, TRUE, Num(-2, 1))>>,
      <<RelV("AB", <<"A">>, TRUE, Num(5, 1)), RelV("CB", <<"C", "B", "A">>, TRUE, Num(7, 2))>>,
      <<RelV("AB", <<"A", "X">>, TRUE, Num(5, 1)), RelV("CB", <<"X", "X">>, TRUE, Num(7, 1))>> }

ValPropLists ==
    { <<>>,
      <<Prop("m1", <<Hop("AB", "B", "allocation", "w")>>)>>,
      <<Prop("m1", <<Hop("AB", "B", "bogus", "")>>), Prop("m1", <<>>)>>,
      <<Prop("ghost", <<Hop("AB", "B", "allocation", "")>>),
        Prop("n1", <<Hop("AB", "A", "elimination", ""), Hop("AB", "B", "sum_over_sum", "")>>)>> }

ValTableLists ==
    { <<>>,
      <<Tbl("t1", <<"A", "B">>, <<"m1", "n1">>)>>,
      <<Tbl("t2", <<"A", "C">>, <<"m1">>)>>,
      <<Tbl("t1", <<"A">>, <<"m1", "m1", "ghost">>), Tbl("t1", <<"B">>, <<"ghost", "ghost">>),
        Tbl("t1", <<"C">>, <<"n1", "n1", "n1">>)>> }

\* One propagation of m1 or n1 with every path of up to n hops over the
\* declared entities and relationships; or every combination of the entity,
\* relationship, propagation and table lists.
ValManifests(n) ==
    { [entities |-> ValEntities, relationships |-> rs,
       propagations |-> <<Prop(mn, path)>>, bft_tables |-> ts] :
          rs \in ValWalkRelLists, mn \in {"m1", "n1"},
          path \in SeqsUpTo(ValHops, n),
          ts \in {<<>>} }
    \cup
    { [entities |-> es, relationships |-> rs, propagations |-> ps, bft_tables |-> ts] :
          es \in ValEntityLists, rs \in ValRelLists,
          ps \in ValPropLists, ts \in ValTableLists }

InitValidate ==
    /\ pc = "ready"
    /\ op = "validate"
    /\ manifest \in ValManifests(MaxValidatePath)
    /\ table = NoTable
    /\ result = NoResult
    /\ trace = NoTrace
    /\ errors = <<>>

\* const errors = validate(manifest), or the TypeError it throws.
CallValidate ==
    /\ pc = "ready"
    /\ op = "validate"
    /\ LET r == validate(manifest)
       IN /\ pc' = IF r.raised THEN "raised" ELSE "done"
          /\ errors' = r.errors
    /\ UNCHANGED <<op, manifest, table, result, trace>>

NextValidate == CallValidate

SpecValidate == InitValidate /\ [][NextValidate]_vars

----------------------------------------------------------------------------
(* Both estimators in one specification: a behaviour calls estimateRows or  *)
(* estimateTableRows on arguments of its own.                               *)

InitEstimators == InitEstimateRows \/ InitTable

NextEstimators == CallEstimateRows \/ CallEstimateTableRows

SpecEstimators == InitEstimators /\ [][NextEstimators]_vars

----------------------------------------------------------------------------
(* Repeated calls.  A behaviour holds one manifest (and table) and calls    *)
(* the same function on it up to MaxCalls times.  The arguments are heap    *)
(* objects the function receives by reference: each call's action sets      *)
(* them to what the call leaves in them.  None of the three functions       *)
(* assigns to an argument or to anything reachable from one; they write     *)
(* only to arrays, Maps and Sets they create (errors, entityMap, seen,      *)
(* visited, chains, [...chain], queue, breakdown).                          *)

MaxCalls == 2
MaxCallPath == 1

\* Variant: validate takes the tables it has checked out of the manifest.
ManifestAfterValidate_Consumes(m) == [m EXCEPT !.bft_tables = <<>>]

\* The manifest as validate leaves it.
ManifestAfterValidate(m) == m

\* The entities, relationships and grain list as estimateRows leaves them.
ArgsAfterEstimateRows(entities, relationships, grainEntities) ==
    [entities |-> entities, relationships |-> relationships, grainEntities |-> grainEntities]

\* The manifest and table as estimateTableRows leaves them (grainEntities is
\* table.entities itself, not a copy, and is only read).
ArgsAfterEstimateTableRows(m, t) == [manifest |-> m, table |-> t]

CallRelLists ==
    { <<>>,
      <<Rel("AB", "A", "B", "many-to-many", 3), Rel("CB", "C", "B", "many-to-many", 5),
        Rel("CD", "C", "D", "many-to-many", 5)>>,
      <<Rel("AB", "A", "B", "many-to-many", 3), Rel("CB", "C", "B", "many-to-many", 5),
        Rel("CA", "C", "A", "many-to-many", 7)>>,
      <<Rel("AD1", "A", "D", "many-to-one", 6), Rel("DB", "D", "B", "many-to-many", 4)>> }

CallMetricSpecs ==
    { <<>>,
      <<[metric |-> "a1", decl |-> Undeclared]>>,
      <<[metric |-> "a1", decl |-> DeclaredPath(<<Hop("AB", "B", "reserve", "")>>)],
        [metric |-> "a2", decl |-> Undeclared]>>,
      <<[metric |-> "a1", decl |-> DeclaredPath(<<Hop("AB", "B", "allocation", ""),
                                                  Hop("CB", "C", "elimination", "")>>)],
        [metric |-> "c1", decl |-> DeclaredPath(<<Hop("CB", "B", "allocation", "w")>>)]>>,
      <<[metric |-> "ghost", decl |-> Undeclared],
        [metric |-> "c1", decl |-> Undeclared]>> }

InitCalls ==
    /\ pc = "ready"
    /\ \/ /\ op = "validate"
          /\ manifest \in ValManifests(MaxCallPath)
          /\ table = NoTable
       \/ /\ op = "estimateRows"
          /\ \E es \in EstEntityLists, rs \in CallRelLists :
                manifest = [entities |-> es, relationships |-> rs,
                            propagations |-> <<>>, bft_tables |-> <<>>]
          /\ \E g \in InjSeqs(GrainNames, Cardinality(GrainNames)) :
                table = [name |-> "grain", entities |-> g, metrics |-> <<>>]
       \/ /\ op = "estimateTableRows"
          /\ \E rs \in TblRelLists, specs \in CallMetricSpecs,
                g \in InjSeqs({"A", "B", "C"}, 3) :
                /\ manifest = [entities |-> TblEntities, relationships |-> rs,
                               propagations |-> PropsOfSpecs(specs), bft_tables |-> <<>>]
                /\ table = [name |-> "t", entities |-> g,
                            metrics |-> [k \in DOMAIN specs |-> specs[k].metric]]
    /\ result = NoResult
    /\ trace = NoTrace
    /\ errors = <<>>

\* errors = validate(manifest), for the first time or once more.
ValidateCall ==
    /\ op = "validate"
    /\ trace.calls < MaxCalls
    /\ LET r == validate(manifest)
       IN /\ pc' = IF r.raised THEN "raised" ELSE "done"
          /\ errors' = r.errors
    /\ manifest' = ManifestAfterValidate(manifest)
    /\ trace' = [trace EXCEPT !.calls = @ + 1]
    /\ UNCHANGED <<op, table, result>>

\* result = estimateRows(entities, relationships, grainEntities), once or once more.
EstimateRowsCall ==
    /\ op = "estimateRows"
    /\ trace.calls < MaxCalls
    /\ IF estimateRowsThrows(manifest.relationships)
       THEN pc' = "raised" /\ UNCHANGED result
       ELSE /\ result' = estimateRows(manifest.entities, manifest.relationships,
                                      table.entities)
            /\ pc' = "done"
    /\ LET after == ArgsAfterEstimateRows(manifest.entities, manifest.relationships,
                                          table.entities)
       IN /\ manifest' = [manifest EXCEPT !.entities = after.entities,
                                          !.relationships = after.relationships]
          /\ table' = [table EXCEPT !.entities = after.grainEntities]
    /\ trace' = [trace EXCEPT !.calls = @ + 1]
    /\ UNCHANGED <<op, errors>>

\* result = estimateTableRows(manifest, table), once or once more.
EstimateTableRowsCall ==
    /\ op = "estimateTableRows"
    /\ trace.calls < MaxCalls
    /\ IF estimateTableRowsThrows(manifest, table)
       THEN pc' = "raised" /\ UNCHANGED result
       ELSE /\ result' = estimateTableRows(manifest, table)
            /\ pc' = "done"
    /\ LET after == ArgsAfterEstimateTableRows(manifest, table)
       IN manifest' = after.manifest /\ table' = after.table
    /\ trace' = [trace EXCEPT !.calls = @ + 1]
    /\ UNCHANGED <<op, errors>>

NextCalls == ValidateCall \/ EstimateRowsCall \/ EstimateTableRowsCall

SpecCalls == InitCalls /\ [][NextCalls]_vars

----------------------------------------------------------------------------
(* The estimators on a manifest that validate would reject: entity C is     *)
(* not in the entity list (X is not in the table one) while the grain and   *)
(* the relationships may name it, a relationship may have no between or a   *)
(* between of one name, and a hop may target the undeclared entity.         *)

NoBetween(n, t, l) ==
    [name |-> n, between |-> <<>>, between_is_array |-> FALSE,
     type |-> t, estimated_links |-> l]

UnvEntities == <<Ent("A", 2), Ent("B", 3), Ent("D", 7)>>

UnvRelCatalogue ==
    { Rel("AB", "A", "B", "many-to-many", 3),
      Rel("CB", "C", "B", "many-to-many", 5),
      Rel("CD", "C", "D", "many-to-many", 5),
      Rel("DB", "D", "B", "many-to-many", 4),
      [Rel("A1", "A", "A", "many-to-many", 6) EXCEPT !.between = <<"A">>],
      NoBetween("N1", "many-to-one", 2),
      NoBetween("NB", "many-to-many", 4) }

UnvTblRelLists ==
    { <<Rel("AB", "A", "B", "many-to-many", 5), Rel("BX", "B", "X", "many-to-many", 7)>>,
      <<Rel("XA", "X", "A", "many-to-many", 3), Rel("CB", "C", "B", "many-to-many", 7)>>,
      <<NoBetween("N1", "many-to-one", 2), Rel("CB", "C", "B", "many-to-many", 7)>>,
      <<Rel("AB", "A", "B", "many-to-many", 5), NoBetween("NB", "many-to-many", 4)>> }

UnvMetricSpecs ==
    CallMetricSpecs \cup
    { <<[metric |-> "a1", decl |-> DeclaredPath(<<Hop("XA", "X", "allocation", "w")>>)]>> }

InitUnvalidated ==
    /\ pc = "ready"
    /\ \/ /\ op = "estimateRows"
          /\ \E rs \in InjSeqs(UnvRelCatalogue, MaxRels) :
                manifest = [entities |-> UnvEntities, relationships |-> rs,
                            propagations |-> <<>>, bft_tables |-> <<>>]
          /\ \E g \in InjSeqs(GrainNames, Cardinality(GrainNames)) :
                table = [name |-> "grain", entities |-> g, metrics |-> <<>>]
       \/ /\ op = "estimateTableRows"
          /\ \E rs \in UnvTblRelLists, specs \in UnvMetricSpecs,
                g \in InjSeqs({"A", "B", "C", "X"}, 4) :
                /\ manifest = [entities |-> TblEntities, relationships |-> rs,
                               propagations |-> PropsOfSpecs(specs), bft_tables |-> <<>>]
                /\ table = [name |-> "t", entities |-> g,
                            metrics |-> [k \in DOMAIN specs |-> specs[k].metric]]
    /\ result = NoResult
    /\ trace = NoTrace
    /\ errors = <<>>

SpecUnvalidated == InitUnvalidated /\ [][NextEstimators]_vars

----------------------------------------------------------------------------
(* Properties of validate.                                                 *)

ValidateCalled == op = "validate" /\ pc # "ready"
ValidateDone == op = "validate" /\ pc = "done"

\* What one check reports when it is given an empty errors array.
RefOwnReport ==
    [ names |-> checkDuplicateNames(manifest, <<>>),
      cardinalities |-> checkPositiveCardinalities(manifest, <<>>),
      relationships |-> checkRelationshipEntities(manifest, <<>>),
      propagations |-> checkPropagations(manifest, <<>>),
      tables |-> checkTableMetrics(manifest, <<>>) ]

\* C6: validate runs its five checks unconditionally and independently: for
\* any manifest the list it returns is the concatenation, in check order, of
\* what each check reports on its own, so no check's finding suppresses the
\* errors of another check.
C6_ChecksIndependent ==
    ValidateCalled =>
        /\ pc = "done"
        /\ ~RefOwnReport.propagations.raised
        /\ errors = RefOwnReport.names \o RefOwnReport.cardinalities
                    \o RefOwnReport.relationships \o RefOwnReport.propagations.errors
                    \o RefOwnReport.tables

\* The propagations whose words are unambiguous: the metric is the key of one
\* propagation only and is defined once, by one entity (its home).
RefDefs(metricName) ==
    UNION {{<<e, k>> : k \in {j \in DOMAIN manifest.entities[e].metrics :
                                  manifest.entities[e].metrics[j].name = metricName}} :
           e \in DOMAIN manifest.entities}

RefWalked ==
    {p \in DOMAIN manifest.propagations :
         /\ Cardinality({q \in DOMAIN manifest.propagations :
                manifest.propagations[q].metric = manifest.propagations[p].metric}) = 1
         /\ Cardinality(RefDefs(manifest.propagations[p].metric)) = 1}

RefDef(p) == CHOOSE d \in RefDefs(manifest.propagations[p].metric) : TRUE
RefHome(p) == manifest.entities[RefDef(p)[1]].name
RefNature(p) == manifest.entities[RefDef(p)[1]].metrics[RefDef(p)[2]].nature
RefPath(p) == manifest.propagations[p].path
\* Hops carry their JS index: hop i of RefPath(p) is RefPath(p)[i + 1].
RefHops(p) == 0 .. (Len(RefPath(p)) - 1)
RefHop(p, i) == RefPath(p)[i + 1]

\* validate returned an error of that rule located at hop i of propagation p.
Reported(rule, p, i) ==
    \E e \in DOMAIN errors :
        /\ errors[e].rule = rule
        /\ errors[e].path = "propagations." \o manifest.propagations[p].metric
                            \o ".path[" \o ToString(i) \o "]"

RefRevisits(p, i) ==
    \/ RefHop(p, i).target_entity = RefHome(p)
    \/ \E j \in RefHops(p) : j < i /\ RefHop(p, j).target_entity = RefHop(p, i).target_entity

\* C7: for every declared propagation whose metric exists, every hop whose
\* target_entity is the metric's home entity or the target_entity of an
\* earlier hop gets a propagation-no-cycle error located at that hop, and a
\* hop that revisits nothing gets none.
C7_CycleReported ==
    ValidateDone =>
        \A p \in RefWalked : \A i \in RefHops(p) :
            Reported("propagation-no-cycle", p, i) <=> RefRevisits(p, i)

\* C8: every allocation or elimination hop of a non-additive metric gets a
\* non-additive-strategy error, its sum_over_sum and reserve hops get none,
\* and no hop of an additive metric gets one.
C8_NonAdditiveReported ==
    ValidateDone =>
        \A p \in RefWalked : \A i \in RefHops(p) :
            Reported("non-additive-strategy", p, i)
                <=> /\ RefNature(p) = "non-additive"
                    /\ RefHop(p, i).strategy \in {"allocation", "elimination"}

RefRelsNamed(name) ==
    {r \in DOMAIN manifest.relationships : manifest.relationships[r].name = name}

RefReachedBefore(p, i) == IF i = 0 THEN RefHome(p) ELSE RefHop(p, i - 1).target_entity

\* C9: a hop whose relationship is not declared gets a
\* propagation-relationship-exists error; a hop whose relationship is declared
\* (once, between two entities) gets a propagation-path-connected error
\* exactly when those two entities are not the entity reached by the previous
\* hop (the home entity for the first hop, else the previous hop's declared
\* target_entity) and the hop's own target_entity, in either order.
C9_HopConnects ==
    ValidateDone =>
        \A p \in RefWalked : \A i \in RefHops(p) :
            LET named == RefRelsNamed(RefHop(p, i).relationship)
            IN /\ named = {} => Reported("propagation-relationship-exists", p, i)
               /\ \A r \in named :
                     (Cardinality(named) = 1 /\ Len(manifest.relationships[r].between) = 2)
                     => (Reported("propagation-path-connected", p, i)
                         <=> /\ manifest.relationships[r].between
                                    # <<RefReachedBefore(p, i), RefHop(p, i).target_entity>>
                             /\ manifest.relationships[r].between
                                    # <<RefHop(p, i).target_entity, RefReachedBefore(p, i)>>)

\* C10: an allocation or sum_over_sum hop that carries no weight gets a
\* strategy-weight-required error; reserve and elimination hops and hops
\* that carry a weight get none.
C10_WeightRequired ==
    ValidateDone =>
        \A p \in RefWalked : \A i \in RefHops(p) :
            Reported("strategy-weight-required", p, i)
                <=> /\ RefHop(p, i).strategy \in {"allocation", "sum_over_sum"}
                    /\ RefHop(p, i).weight = ""

\* The five name collections, by the kind word the error message uses.
RefNameLists ==
    [ entity |-> [i \in DOMAIN manifest.entities |-> manifest.entities[i].name],
      metric |-> AllMetricNames(manifest.entities, 1),
      relationship |-> [i \in DOMAIN manifest.relationships |-> manifest.relationships[i].name],
      propagation |-> [i \in DOMAIN manifest.propagations |-> manifest.propagations[i].metric],
      table |-> [i \in DOMAIN manifest.bft_tables |-> manifest.bft_tables[i].name] ]

RefOccurrences(names, N) == Cardinality({i \in DOMAIN names : names[i] = N})

RefDuplicateErrors(kind, N) ==
    {e \in DOMAIN errors :
         /\ errors[e].rule = "no-duplicates"
         /\ errors[e].message = "Duplicate " \o kind \o " name: \"" \o N \o "\""}

\* C11: in each of the five name collections a name that occurs k times gets
\* exactly k - 1 no-duplicates errors naming it (none when it occurs once),
\* and every no-duplicates error names such a name.
C11_DuplicatesCounted ==
    ValidateDone =>
        /\ \A kind \in DOMAIN RefNameLists : \A N \in Range(RefNameLists[kind]) :
              Cardinality(RefDuplicateErrors(kind, N)) = RefOccurrences(RefNameLists[kind], N) - 1
        /\ \A e \in DOMAIN errors :
              errors[e].rule = "no-duplicates" =>
                  \E kind \in DOMAIN RefNameLists : \E N \in Range(RefNameLists[kind]) :
                      e \in RefDuplicateErrors(kind, N)

\* A relationship name and a table name used three times get two errors
\* each, next to names used twice and once.
C11_Witness ==
    /\ ValidateDone
    /\ RefOccurrences(RefNameLists.relationship, "AB") = 3
    /\ Cardinality(RefDuplicateErrors("relationship", "AB")) = 2
    /\ RefOccurrences(RefNameLists.table, "t1") = 3
    /\ Cardinality(RefDuplicateErrors("table", "t1")) = 2
    /\ Cardinality(RefDuplicateErrors("entity", "A")) = 1
    /\ Cardinality(RefDuplicateErrors("metric", "n1")) = 0
    /\ Cardinality(RefDuplicateErrors("propagation", "m1")) = 1

RefIsPair(r) ==
    manifest.relationships[r].between_is_array /\ Len(manifest.relationships[r].between) = 2

RefDeclaredEntity(name) == \E e \in DOMAIN manifest.entities : manifest.entities[e].name = name

\* The errors of one rule that validate located at the between of the
\* relationships named N.
RefBetweenErrors(rule, N) ==
    {e \in DOMAIN errors :
         errors[e].rule = rule /\ errors[e].path = "relationships." \o N \o ".between"}

\* The elements of well-formed pairs of relationships named N that name no
\* declared entity.
RefDanglingEnds(N) ==
    {<<r, k>> \in RefRelsNamed(N) \X {1, 2} :
         RefIsPair(r) /\ ~RefDeclaredEntity(manifest.relationships[r].between[k])}

C12_WitnessPair ==
    /\ ValidateDone
    /\ \E r \in RefRelsNamed("CB") : manifest.relationships[r].between = <<"X", "X">>
    /\ Cardinality(RefBetweenErrors("relationship-entity-exists", "CB")) = 2
    /\ RefBetweenErrors("relationship-between-pair", "CB") = {}

\* C13: validate returns an error list and never raises, also when a
\* relationship's between is missing or is not a pair and a propagation hop
\* names that relationship.
C13_NeverRaises == ValidateCalled => pc = "done"

\* num/den is one of 1, 2, 3, ...
RefPositiveInteger(x) == \E k \in 1..x.num : k * x.den = x.num

RefCardinalityErrors(path) ==
    {e \in DOMAIN errors : errors[e].rule = "positive-cardinality" /\ errors[e].path = path}

RefRowsPath(N) == "entities." \o N \o ".estimated_rows"
RefLinksPath(N) == "relationships." \o N \o ".estimated_links"

\* C14: each entity whose estimated_rows is not a positive integer and each
\* relationship whose estimated_links is not a positive integer gets exactly
\* one positive-cardinality error, and positive integers get none.  (Errors
\* carry the name, so they are counted per name.)
C14_PositiveCardinality ==
    ValidateDone =>
        /\ \A i \in DOMAIN manifest.entities :
              LET N == manifest.entities[i].name
              IN Cardinality(RefCardinalityErrors(RefRowsPath(N)))
                     = Cardinality({j \in DOMAIN manifest.entities :
                           /\ manifest.entities[j].name = N
                           /\ ~RefPositiveInteger(manifest.entities[j].estimated_rows)})
        /\ \A r \in DOMAIN manifest.relationships :
              LET N == manifest.relationships[r].name
              IN Cardinality(RefCardinalityErrors(RefLinksPath(N)))
                     = Cardinality({q \in RefRelsNamed(N) :
                           ~RefPositiveInteger(manifest.relationships[q].estimated_links)})
        /\ \A e \in DOMAIN errors :
              errors[e].rule = "positive-cardinality" =>
                  \/ \E i \in DOMAIN manifest.entities :
                        errors[e].path = RefRowsPath(manifest.entities[i].name)
                  \/ \E r \in DOMAIN manifest.relationships :
                        errors[e].path = RefLinksPath(manifest.relationships[r].name)

\* Rows of 0 and -1 (both entities named A) and of 3/2, links of 7/2 next to
\* links of 5: two errors for A, one for B, one for CB, none for AB.
C14_Witness ==
    /\ ValidateDone
    /\ \E i \in DOMAIN manifest.entities : manifest.entities[i].estimated_rows = Num(3, 2)
    /\ \E r \in DOMAIN manifest.relationships : manifest.relationships[r].estimated_links = Num(7, 2)
    /\ Cardinality(RefCardinalityErrors(RefRowsPath("A"))) = 2
    /\ Cardinality(RefCardinalityErrors(RefRowsPath("B"))) = 1
    /\ Cardinality(RefCardinalityErrors(RefLinksPath("CB"))) = 1
    /\ RefCardinalityErrors(RefLinksPath("AB")) = {}

\* The check a rule belongs to, 1 to 5 in the order the claim lists them.
RefCheckOf(rule) ==
    CASE rule = "no-duplicates" -> 1
      [] rule = "positive-cardinality" -> 2
      [] rule \in {"relationship-between-pair", "relationship-entity-exists"} -> 3
      [] rule \in {"propagation-metric-exists", "propagation-path-nonempty",
                   "propagation-relationship-exists", "propagation-entity-exists",
                   "propagation-path-connected", "valid-strategy",
                   "strategy-weight-required", "propagation-no-cycle",
                   "non-additive-strategy"} -> 4
      [] rule \in {"table-metric-unique", "table-metric-exists"} -> 5
      [] OTHER -> 0

\* C15: the returned list is ordered by check: every no-duplicates error
\* comes before every positive-cardinality error, these before every
\* relationship error, these before every propagation error, and these before
\* every table-metric error.
C15_OrderedByCheck ==
    ValidateDone =>
        \A i, j \in DOMAIN errors :
            /\ RefCheckOf(errors[i].rule) \in 1..5
            /\ i < j => RefCheckOf(errors[i].rule) <= RefCheckOf(errors[j].rule)

\* A list with errors of all five checks, several of each of three.
C15_Witness ==
    /\ ValidateDone
    /\ {RefCheckOf(errors[i].rule) : i \in DOMAIN errors} = 1..5
    /\ \A c \in {1, 3, 5} : Cardinality({i \in DOMAIN errors : RefCheckOf(errors[i].rule) = c}) >= 2

----------------------------------------------------------------------------
(* Properties of findConnectedComponents.                                  *)

ComponentsDone == op = "findConnectedComponents" /\ pc = "done"

RefNodes == Range(table.entities)

\* The edges of the graph on the input names: the given relationships whose
\* two names are both input names.
RefInsideRels == {r \in DOMAIN manifest.relationships :
                      Range(manifest.relationships[r].between) \subseteq RefNodes}

RefNodeStep(S) ==
    S \cup {n \in RefNodes : \E r \in RefInsideRels :
                n \in Range(manifest.relationships[r].between)
                /\ Range(manifest.relationships[r].between) \cap S # {}}

RECURSIVE RefNodeReach(_)
RefNodeReach(S) == IF RefNodeStep(S) = S THEN S ELSE RefNodeReach(RefNodeStep(S))

\* The places (component, position) where the returned components hold n.
RefPlaces(n) ==
    UNION {{<<c, k>> : k \in {j \in DOMAIN trace.components[c] : trace.components[c][j] = n}} :
           c \in DOMAIN trace.components}

RefTogether(a, b) ==
    \E c \in DOMAIN trace.components : {a, b} \subseteq Range(trace.components[c])

\* C16: every input name, also one without edges, appears in exactly one
\* returned component, and two input names are in the same component exactly
\* when a chain of the given edges joins them in the graph on the input names.
C16_Partition ==
    ComponentsDone =>
        /\ \A n \in RefNodes : Cardinality(RefPlaces(n)) = 1
        /\ \A a, b \in RefNodes : RefTogether(a, b) <=> b \in RefNodeReach({a})

\* Four names: A reaches C only through the chain A-B, B-C listed against
\* the order of the names, and D has no edge.
C16_Witness ==
    /\ ComponentsDone
    /\ table.entities = <<"C", "D", "B", "A">>
    /\ RefInsideRels # {}
    /\ RefNodeReach({"A"}) = {"A", "B", "C"}
    /\ ~\E r \in RefInsideRels : manifest.relationships[r].between \in {<<"A", "C">>, <<"C", "A">>}
    /\ trace.components = <<<<"C", "B", "A">>, <<"D">>>>

\* C17: edges that touch a name outside the node set are ignored: every name
\* of every returned component is an input name, and the result is the one
\* obtained without those edges.
C17_OutsideEdgesIgnored ==
    ComponentsDone =>
        /\ \A c \in DOMAIN trace.components : Range(trace.components[c]) \subseteq RefNodes
        /\ trace.components =
               findConnectedComponents(table.entities,
                   SelectSeq(manifest.relationships, LAMBDA rel : Range(rel.between) \subseteq RefNodes))

----------------------------------------------------------------------------
(* Further properties of estimateRows and estimateTableRows.               *)

\* The relationship list without the many-to-one relationships and without
\* those that have an endpoint outside the grain.
RefRelevantRels ==
    SelectSeq(manifest.relationships,
        LAMBDA r : r.type = "many-to-many" /\ Range(r.between) \subseteq Range(table.entities))

\* C18: estimateRows uses only the many-to-many relationships whose two
\* endpoints are in the grain: the estimate is the one obtained with every
\* other relationship removed, and when no relationship is left (grain
\* entities joined by many-to-one relationships only, or not at all) the rows
\* are the sum of the grain entities' estimated_rows.
C18_OnlyGrainManyToMany ==
    EstimateRowsDone =>
        /\ result = estimateRows(manifest.entities, RefRelevantRels, table.entities)
        /\ RefRelevantRels = <<>> =>
               result.rows = RefRowsSum({n \in Range(table.entities) : Declared({n})})

\* Grain A, D joined by the many-to-one AD1 only, next to a many-to-many
\* relationship that leaves the grain: 2 + 7 rows.
C18_Witness ==
    /\ EstimateRowsDone
    /\ table.entities = <<"A", "D">>
    /\ \E i \in DOMAIN manifest.relationships :
          /\ manifest.relationships[i].type = "many-to-one"
          /\ Range(manifest.relationships[i].between) = {"A", "D"}
    /\ \E i \in DOMAIN manifest.relationships :
          /\ manifest.relationships[i].type = "many-to-many"
          /\ "A" \in Range(manifest.relationships[i].between)
          /\ ~(Range(manifest.relationships[i].between) \subseteq {"A", "D"})
    /\ RefRelevantRels = <<>>
    /\ result.rows = 9

\* One fixed ordering of the grain and of the relationship list of the
\* state: every ordering of the same grain and relationships has the same one.
RefNameOrder == <<"A", "B", "C", "D">>
RefRelNameOrder == <<"AB", "CB", "CD", "CA", "DB", "AD1">>

RefSortedGrain == SelectSeq(RefNameOrder, LAMBDA n : n \in Range(table.entities))

RefSortedRels ==
    LET present == SelectSeq(RefRelNameOrder,
                       LAMBDA n : \E i \in DOMAIN manifest.relationships :
                                      manifest.relationships[i].name = n)
    IN [k \in DOMAIN present |->
           manifest.relationships[CHOOSE i \in DOMAIN manifest.relationships :
                                      manifest.relationships[i].name = present[k]]]

\* The tree relationships estimateComponentRows selects for a component, in
\* discovery order.
RefSpanRels(component, mmRels) ==
    SpanningTree(RelAdjacency([n \in Range(component) |-> <<>>], mmRels, 1),
                 [visited |-> {component[1]}, queue |-> <<component[1]>>, spanRels |-> <<>>])

\* The value without rounding, as a fraction: the first tree edge's
\* estimated_links, times links / rows for each later tree edge, rows being
\* those of its endpoint that an earlier tree edge already names.
RECURSIVE RefIdealFold(_, _, _)
RefIdealFold(spanRels, i, acc) ==
    IF i > Len(spanRels) THEN acc
    ELSE LET earlier == UNION {Range(spanRels[j].between) : j \in 1..(i - 1)}
             shared == CHOOSE n \in Range(spanRels[i].between) : n \in earlier
         IN RefIdealFold(spanRels, i + 1,
                [num |-> acc.num * spanRels[i].estimated_links,
                 den |-> acc.den * RowsOf(shared)])

RefIdeal(component, mmRels) ==
    LET spanRels == RefSpanRels(component, mmRels)
    IN RefIdealFold(spanRels, 2, [num |-> spanRels[1].estimated_links, den |-> 1])

RefSameIdeal(x, y) == x.num * y.den = y.num * x.den

\* The components of two or more declared entities, as findConnectedComponents
\* returns them for the grain and relationships in the order given.
RefMultiComponents(grain, rels) ==
    LET cs == findConnectedComponents(grain, GrainMmRels(rels, grain))
    IN {cs[c] : c \in {d \in DOMAIN cs : Len(cs[d]) >= 2 /\ Declared(Range(cs[d]))}}

\* The component's relationships form a tree: one fewer than its entities.
RefIsTree(component) ==
    Cardinality({i \in RefEdges : Range(manifest.relationships[i].between)
                                      \subseteq Range(component)})
        = Len(component) - 1

\* C19: for fixed entities and relationships the value of a connected grain
\* component without rounding is the same for every ordering of the grain
\* entity list and of the relationship list.
C19_IdealOrderFree ==
    EstimateRowsDone =>
        \A c \in RefMultiComponents(table.entities, manifest.relationships) :
        \A d \in RefMultiComponents(RefSortedGrain, RefSortedRels) :
            Range(c) = Range(d) =>
                RefSameIdeal(RefIdeal(c, GrainMmRels(manifest.relationships, table.entities)),
                             RefIdeal(d, GrainMmRels(RefSortedRels, RefSortedGrain)))

\* C19, amended: the value without rounding is the same for every ordering
\* when the component's many-to-many relationships form a tree; when they
\* contain a cycle the ordering selects the spanning tree and with it the
\* value.
C19_IdealOrderFreeOnTrees ==
    EstimateRowsDone =>
        \A c \in RefMultiComponents(table.entities, manifest.relationships) :
        \A d \in RefMultiComponents(RefSortedGrain, RefSortedRels) :
            (Range(c) = Range(d) /\ RefIsTree(c)) =>
                RefSameIdeal(RefIdeal(c, GrainMmRels(manifest.relationships, table.entities)),
                             RefIdeal(d, GrainMmRels(RefSortedRels, RefSortedGrain)))

\* The chain C-A-B-D listed from B: 3 * 4/3 = 4, 4 * 7/2 = 14, while the
\* sorted grain starts at A and rounds 3 * 7/2 up to 11 and 11 * 4/3 to 15;
\* without rounding both are 14.
C19_Witness ==
    /\ EstimateRowsDone
    /\ table.entities = <<"B", "A", "C", "D">>
    /\ RefMultiComponents(table.entities, manifest.relationships) = {<<"B", "A", "D", "C">>}
    /\ RefIsTree(<<"B", "A", "D", "C">>)
    /\ RefSameIdeal(RefIdeal(<<"B", "A", "D", "C">>,
                             GrainMmRels(manifest.relationships, table.entities)),
                    [num |-> 14, den |-> 1])
    /\ result.rows = 14
    /\ estimateRows(manifest.entities, RefSortedRels, RefSortedGrain).rows = 15

\* C20: every estimate returned has total = rows + placeholder_row_count:
\* estimateRows returns placeholder_row_count = 0 and total = rows, and
\* estimateTableRows returns total = the summed rows of the surviving chains
\* plus the placeholder rows.
C20_TotalIsSum ==
    /\ (EstimateRowsDone \/ TableDone) =>
           result.total = result.rows + result.placeholder_row_count
    /\ EstimateRowsDone => (result.placeholder_row_count = 0 /\ result.total = result.rows)
    /\ TableDone => result.total = RefChainSum(RefSurvivors) + RefRowsSum(RefPlaceholderHomes)

\* A table over A and B with a chain worth 5 rows (the A-B links) and A's 2
\* placeholder rows: total 7.
C20_Witness ==
    /\ TableDone
    /\ result.rows = 5
    /\ result.placeholder_row_count = 2
    /\ result.total = 7

\* An estimateRows call whose rows are not zero.
C20_WitnessRows ==
    /\ EstimateRowsDone
    /\ result.rows > 0
    /\ result.total = result.rows

C21_WitnessTable ==
    /\ op = "estimateTableRows" /\ pc = "done"
    /\ trace.calls = 2
    /\ result = estimateTableRows(manifest, table)
    /\ result.placeholder_row_count > 0

----------------------------------------------------------------------------
(* The estimators on input that was not validated.                         *)

EstimatorCalled == pc # "ready" /\ op \in {"estimateRows", "estimateTableRows"}

RefDeclaredName(n) == \E i \in DOMAIN manifest.entities : manifest.entities[i].name = n

\* The relationships all of whose named entities are in the entity list.
RefResolvedRels ==
    SelectSeq(manifest.relationships,
              LAMBDA r : r.between_is_array /\ \A k \in DOMAIN r.between :
                                                  RefDeclaredName(r.between[k]))

\* The fold of C1 with the edges whose parent is not declared left out.
RECURSIVE RefFoldOmitting(_, _, _)
RefFoldOmitting(edges, i, total) ==
    IF i > Len(edges) THEN total
    ELSE RefFoldOmitting(edges, i + 1,
            IF RefDeclaredName(edges[i].parent)
            THEN RefNearest(total * edges[i].links, RowsOf(edges[i].parent))
            ELSE total)

\* The rows of the same call with the unresolved relationships taken out.
RefRowsWithout ==
    IF op = "estimateRows"
    THEN estimateRows(manifest.entities, RefResolvedRels, table.entities).rows
    ELSE estimateTableRows([manifest EXCEPT !.relationships = RefResolvedRels], table).rows

\* C22: estimateRows and estimateTableRows return on unvalidated input, and
\* leave out what they cannot resolve: a grain name that is not in the entity
\* list adds no rows and no breakdown line of its own, a tree edge whose
\* endpoint already in the tree is not in the entity list multiplies by
\* nothing, and a relationship that names an entity outside the entity list
\* contributes nothing (rows are what they are without it).
C22_SilentOmission ==
    EstimatorCalled =>
        /\ pc = "done"
        /\ op = "estimateRows" =>
              /\ \A k \in DOMAIN table.entities :
                    ~RefDeclaredName(table.entities[k]) =>
                        /\ \A b \in DOMAIN result.breakdown :
                               result.breakdown[b].kind = "entity" =>
                                   result.breakdown[b].name # table.entities[k]
                        /\ \A c \in DOMAIN trace.contribs :
                               trace.contribs[c].component # <<table.entities[k]>>
              /\ \A c \in DOMAIN trace.contribs :
                    LET K == Range(trace.contribs[c].component)
                    IN Cardinality(K) >= 2 =>
                          trace.contribs[c].rows =
                              RefFoldOmitting(RefTreeOf(K), 2, RefTreeOf(K)[1].links)
        /\ result.rows = RefRowsWithout

----------------------------------------------------------------------------
(* validate and the entities a table declares.                             *)

\* The entities the propagation paths of table t's metrics touch: each
\* metric's home entity and the target of every hop declared for the metric.
RefTableTouched(t) ==
    {n \in {manifest.entities[i].name : i \in DOMAIN manifest.entities} :
        \E k \in DOMAIN t.metrics : RefOwns(n, t.metrics[k])}
    \cup
    UNION {{manifest.propagations[p].path[h].target_entity :
                h \in DOMAIN manifest.propagations[p].path} :
           p \in {q \in DOMAIN manifest.propagations :
                     \E k \in DOMAIN t.metrics :
                         t.metrics[k] = manifest.propagations[q].metric}}

\* The rules of the five checks validate runs; none is about table.entities.
RefKnownRules ==
    {"no-duplicates", "positive-cardinality", "relationship-between-pair",
     "relationship-entity-exists", "propagation-metric-exists",
     "propagation-path-nonempty", "propagation-relationship-exists",
     "propagation-entity-exists", "propagation-path-connected", "valid-strategy",
     "strategy-weight-required", "propagation-no-cycle", "non-additive-strategy",
     "table-metric-unique", "table-metric-exists"}

\* C23: validate checks each table's declared entities against the
\* propagation paths of its metrics: when a declared entity is not reached by
\* those paths, or the paths touch an entity the table does not declare, the
\* returned list has an error for it (an error of a rule about the table's
\* entities, which is none of the rules of the other checks).
C23_TableEntitiesChecked ==
    ValidateDone =>
        \A t \in DOMAIN manifest.bft_tables :
            Range(manifest.bft_tables[t].entities) # RefTableTouched(manifest.bft_tables[t])
                => \E e \in DOMAIN errors : errors[e].rule \notin RefKnownRules

----------------------------------------------------------------------------
(* estimateTableRows: chains, pure dimension entities and reduction.       *)

\* The table metrics that get a chain: those whose home entity is in the grain.
RefActiveMetrics ==
    SelectSeq(table.metrics, LAMBDA mn : \E H \in GrainSet : RefOwns(H, mn))

\* A metric's active entities: its home and the in-grain targets of its hops.
RefMetricChain(mn) ==
    {H \in GrainSet : RefOwns(H, mn)}
    \cup UNION {{manifest.propagations[p].path[h].target_entity :
                    h \in DOMAIN manifest.propagations[p].path} \cap GrainSet :
                p \in {q \in DOMAIN manifest.propagations :
                          manifest.propagations[q].metric = mn}}

\* The grain entities that are in no metric's active chain.
RefDimensions ==
    GrainSet \ UNION {RefMetricChain(RefActiveMetrics[i]) : i \in DOMAIN RefActiveMetrics}

\* Some many-to-many relationship joins d to a member of S.
RefBridges(d, S) ==
    \E r \in DOMAIN manifest.relationships :
        /\ manifest.relationships[r].type = "many-to-many"
        /\ \/ manifest.relationships[r].between[1] = d
              /\ manifest.relationships[r].between[2] \in S
           \/ manifest.relationships[r].between[2] = d
              /\ manifest.relationships[r].between[1] \in S

\* The chains that are estimated, as sets.
RefEffective == {Range(trace.effectiveChains[i]) : i \in DOMAIN trace.effectiveChains}

\* C25: a grain entity d that is in no metric's active chain ends up in a
\* chain that is estimated; when some estimated chain holds an entity that d
\* shares a many-to-many relationship with, d's chain holds such an entity,
\* and otherwise d's chain is the singleton {d}; and d is never put into a
\* metric's chain that is then estimated apart from a chain that strictly
\* contains that metric's chain.
C25_DimensionsFolded ==
    TableDone =>
        \A d \in RefDimensions :
            /\ \E e \in RefEffective :
                  /\ d \in e
                  /\ IF \E e2 \in RefEffective : RefBridges(d, e2 \ {d})
                     THEN RefBridges(d, e \ {d})
                     ELSE e = {d}
            /\ \A i, j \in DOMAIN RefActiveMetrics :
                  LET small == RefMetricChain(RefActiveMetrics[i])
                      large == RefMetricChain(RefActiveMetrics[j])
                  IN ~ /\ small \subseteq large /\ small # large
                       /\ d \in Range(trace.chains[i])
                       /\ \E e1, e2 \in RefEffective :
                              e1 # e2 /\ small \cup {d} \subseteq e1 /\ large \subseteq e2

\* C26: after reduction the surviving chains are an antichain that covers
\* the chains before reduction: no surviving chain is equal to or a subset of
\* another surviving chain, every chain before reduction is a subset of some
\* surviving chain, and every surviving chain is one of the chains before.
C26_AntichainCover ==
    TableDone =>
        /\ \A i, j \in DOMAIN trace.effectiveChains :
               i # j => ~(Range(trace.effectiveChains[i])
                             \subseteq Range(trace.effectiveChains[j]))
        /\ \A c \in DOMAIN trace.chains :
               \E e \in DOMAIN trace.effectiveChains :
                   Range(trace.chains[c]) \subseteq Range(trace.effectiveChains[e])
        /\ \A e \in DOMAIN trace.effectiveChains :
               \E c \in DOMAIN trace.chains : trace.chains[c] = trace.effectiveChains[e]

\* Three chains before reduction, one a strict subset of another and one
\* that holds an entity of neither: two survive.
C26_Witness ==
    /\ TableDone
    /\ Len(trace.chains) = 3
    /\ Len(trace.effectiveChains) = 2
    /\ \E a, b, c \in DOMAIN trace.chains :
          /\ Range(trace.chains[a]) \subseteq Range(trace.chains[b])
          /\ Range(trace.chains[a]) # Range(trace.chains[b])
          /\ Range(trace.chains[c]) \cap Range(trace.chains[b]) = {}
          /\ \A e \in DOMAIN trace.effectiveChains :
                 trace.effectiveChains[e] # trace.chains[a]

\* Two equal chains before reduction, of which one survives.
C26_WitnessDuplicate ==
    /\ TableDone
    /\ \E a, b \in DOMAIN trace.chains : a # b /\ trace.chains[a] = trace.chains[b]
    /\ Len(trace.effectiveChains) = Len(trace.chains) - 1

----------------------------------------------------------------------------
(* What an empty error list guarantees about the propagations.             *)

\* The entities propagation p visits: the home, then each hop's target.
RefVisited(p) ==
    <<RefHome(p)>> \o [h \in DOMAIN RefPath(p) |-> RefPath(p)[h].target_entity]

\* C27: when validate returns no errors, every declared propagation has a
\* metric with a home entity and at least one hop, the sequence (home, target
\* of hop 1, ..., target of hop n) has no repeated entity, and each hop names
\* a declared relationship whose two endpoints are exactly the previous entity
\* of the sequence and the hop's target.
C27_SimplePath ==
    (ValidateDone /\ errors = <<>>) =>
        \A p \in DOMAIN manifest.propagations :
            /\ Cardinality(RefDefs(manifest.propagations[p].metric)) = 1
            /\ Len(RefPath(p)) >= 1
            /\ \A i, j \in DOMAIN RefVisited(p) :
                   i # j => RefVisited(p)[i] # RefVisited(p)[j]
            /\ \A h \in DOMAIN RefPath(p) :
                   \E r \in DOMAIN manifest.relationships :
                       /\ manifest.relationships[r].name = RefPath(p)[h].relationship
                       /\ \/ manifest.relationships[r].between
                                 = <<RefVisited(p)[h], RefVisited(p)[h + 1]>>
                          \/ manifest.relationships[r].between
                                 = <<RefVisited(p)[h + 1], RefVisited(p)[h]>>

\* No errors for a propagation of two hops, A to B to C, the second hop
\* through a relationship declared the other way round (between [C, B]).
C27_Witness ==
    /\ ValidateDone /\ errors = <<>>
    /\ \E p \in DOMAIN manifest.propagations :
          /\ Len(RefPath(p)) = 2
          /\ RefVisited(p) = <<"A", "B", "C">>
          /\ RefPath(p)[2].strategy = "allocation"

\* The components estimateRows forms for a chain and adds to rows.
RefCounted(chain) ==
    LET contribs == EstimateRowsLoop(manifest.entities, manifest.relationships, chain).contribs
    IN UNION {Range(contribs[c].component) : c \in DOMAIN contribs}

\* C28: every entity of table.entities is in at least one surviving chain,
\* an entity that is in no metric's active chain is in exactly one surviving
\* chain, and every grain entity that the manifest declares is in a component
\* that some surviving chain's estimate adds to rows.
C28_GrainAccounted ==
    TableDone =>
        /\ \A g \in GrainSet :
               \E e \in DOMAIN trace.effectiveChains : Has(trace.effectiveChains[e], g)
        /\ \A d \in RefDimensions :
               Cardinality({e \in DOMAIN trace.effectiveChains :
                               Has(trace.effectiveChains[e], d)}) = 1
        /\ LET counted == UNION {RefCounted(trace.effectiveChains[e]) :
                                    e \in DOMAIN trace.effectiveChains}
           IN \A g \in GrainSet : Declared({g}) => g \in counted

\* B is in no metric's chain and connects to both surviving chains, a2's
\* {A} and c1's {C}: it is in the first one only, and rows is 5 + 4.
C28_Witness ==
    /\ TableDone
    /\ "B" \in RefDimensions
    /\ RefBridges("B", {"A"}) /\ RefBridges("B", {"C"})
    /\ RefEffective = {{"A", "B"}, {"C"}}
    /\ result.rows = 9

\* Table metric k has no home in the grain: no entity owns it, or its owner is
\* not in table.entities.
RefHomeless(k) == ~\E H \in GrainSet : RefOwns(H, table.metrics[k])

\* The table with metric k taken out of table.metrics.
RefTableWithout(k) ==
    [table EXCEPT !.metrics = SubSeq(table.metrics, 1, k - 1)
                              \o SubSeq(table.metrics, k + 1, Len(table.metrics))]

\* C29: a table metric whose home entity is not in table.entities, or that no
\* entity owns, contributes nothing: every chain handed to estimateRows holds
\* only members of table.entities, and taking such a metric out of
\* table.metrics leaves rows, placeholder_row_count and total as they are.
C29_HomelessMetricsInert ==
    TableDone =>
        /\ \A e \in DOMAIN trace.effectiveChains :
               Range(trace.effectiveChains[e]) \subseteq GrainSet
        /\ \A k \in DOMAIN table.metrics :
               RefHomeless(k) =>
                   LET without == estimateTableRows(manifest, RefTableWithout(k))
                   IN /\ without.rows = result.rows
                      /\ without.placeholder_row_count = result.placeholder_row_count
                      /\ without.total = result.total

\* a1's home A is outside the grain [B, C] (either order) while a1 has a
\* declared reserve hop to B, which is in the grain; c1 is undeclared and
\* gives C's 4 placeholder rows; a1 adds no chain and no placeholder rows.
C29_Witness ==
    /\ TableDone
    /\ GrainSet = {"B", "C"}
    /\ \E k \in DOMAIN table.metrics :
          /\ table.metrics[k] = "a1" /\ RefHomeless(k)
          /\ \E p \in DOMAIN manifest.propagations :
                /\ manifest.propagations[p].metric = "a1"
                /\ \E h \in DOMAIN manifest.propagations[p].path :
                      /\ manifest.propagations[p].path[h].target_entity = "B"
                      /\ manifest.propagations[p].path[h].strategy = "reserve"
    /\ \E k \in DOMAIN table.metrics : table.metrics[k] = "c1"
    /\ result.placeholder_row_count = 4
    /\ \A e \in DOMAIN trace.effectiveChains : ~Has(trace.effectiveChains[e], "A")

\* A metric that no entity owns is listed beside a1 in a grain that holds A.
C29_WitnessGhost ==
    /\ TableDone
    /\ \E k \in DOMAIN table.metrics : table.metrics[k] = "ghost" /\ RefHomeless(k)
    /\ \E k \in DOMAIN table.metrics : table.metrics[k] = "a1" /\ ~RefHomeless(k)
    /\ result.placeholder_row_count = 2

\* Every reordering of table.metrics.
RefMetricOrders ==
    LET n == Len(table.metrics)
    IN { [i \in 1..n |-> table.metrics[f[i]]] :
           f \in { g \in [1..n -> 1..n] : \A i, j \in 1..n : g[i] = g[j] => i = j } }

\* C30: for a fixed manifest and a fixed table.entities list, the rows,
\* placeholder_row_count and total returned by estimateTableRows are the same
\* for every permutation of table.metrics.
C30_MetricOrderIrrelevant ==
    TableDone =>
        \A order \in RefMetricOrders :
            LET other == estimateTableRows(manifest, [table EXCEPT !.metrics = order])
            IN /\ other.rows = result.rows
               /\ other.placeholder_row_count = result.placeholder_row_count
               /\ other.total = result.total

=============================================================================
